---- MODULE Spec2Model ----
(***************************************************************************)
(* libnetconf notifications (src/src/notifications.c): the stream files,   *)
(* the allow-rule stores, the event publisher ncntf_event_new, the D-Bus   *)
(* announcement of events and the replay-then-live iterator                *)
(* ncntf_stream_iter_start / _next / _finnish.                             *)
(*                                                                         *)
(* Processes share the streams directory and the bus; the threads of one   *)
(* process share the registry (streams), the descriptors of the stream     *)
(* files (and so their file offsets) and the D-Bus connection.             *)
(*                                                                         *)
(* Files are sequences of cells, one cell per write() of the code: the     *)
(* header is one cell, a record is the three cells len, timestamp and      *)
(* payload.  Offsets count cells.                                          *)
(***************************************************************************)
EXTENDS Integers, Sequences, FiniteSets, TLC

(* ------------------------------ bounds -------------------------------- *)
\* the clock runs over 0..MaxTime
MaxTime == 2
\* number of ncntf_event_new calls
MaxPub == 2
\* number of ncntf_stream_iter_start calls
MaxIter == 2
\* number of ncntf_stream_new calls made by the application
MaxNew == 1
\* number of ncntf_init calls
MaxInit == 2
\* number of ncntf_stream_allow_events calls made by the application
MaxAllow == 2
\* number of write() calls that fail
MaxFail == 1
\* longest capability list
MaxCaps == 2
\* notifications a session is given to read
MaxWire == 2
\* bits of the uint64_t that holds an event time, scaled down
TimeWidth == 16
\* NCNTF_RULES_SIZE, the bytes of a rule store, scaled down: a name of an
\* event counts as one byte, the newline behind it as another
RulesSize == 13

(* --------------------------- the population --------------------------- *)
Procs == {"P", "Q"}
Threads == {"t1", "t2", "u1"}
ProcOf(t) == IF t = "u1" THEN "Q" ELSE "P"
ThreadsOf(p) == {t \in Threads : ProcOf(t) = p}

\* NCNTF_STREAM_BASE and one application stream
Streams == {"NETCONF", "A"}
\* scandir(..., alphasort) order of the stream files
DirOrder == <<"A", "NETCONF">>
StreamIdx(n) == IF n = "NETCONF" THEN 1 ELSE 2
IdxStream(i) == IF i = 1 THEN "NETCONF" ELSE "A"

\* the events of RFC 6470 allowed in the NETCONF stream by ncntf_streams_init
BaseEvents == <<"netconf-config-change", "netconf-capability-change",
                "netconf-session-start", "netconf-session-end",
                "netconf-confirmed-commit">>
\* element names of the published events
EventNames == {"x", "netconf-session-start"}

\* a name that fills a rule store on its own
LongName == "long"
\* the event names given to ncntf_stream_allow_events: the empty string is
\* one of them
AllowNames == EventNames \cup {"", LongName}
\* strlen of an event name, on the scale of RulesSize
NameLen(e) == IF e = "" THEN 0 ELSE IF e = LongName THEN RulesSize ELSE 1

\* values of the etime parameter of ncntf_event_new: -1 is "now"
Etimes == {-1, 0}
\* event names that threads allow at the same time
RaceNames == {"x", "y"}
\* the same with a negative override other than -1
PubTimes == {-2, -1, 0, 1}
\* values of start and stop given to the iterator: -1 is "unset"
Starts == -1 .. (MaxTime - 1)
Stops == -1 .. (MaxTime - 1)

None == "none"
\* pthread_getspecific(ncntf_replay_done) of a thread that set no value
NullPtr == -1
Null == [name |-> "", replay |-> 0, data |-> 0, locked |-> 0]
NoSub == [stream |-> "", start |-> -1, stop |-> -1]
\* the arguments of an event that is no capability change
NoCpblts == [old |-> <<>>, new |-> <<>>, content |-> <<>>]
NoEv == [id |-> 0, time |-> 0, ename |-> "", s |-> "", off |-> 0,
         failed |-> FALSE, lost |-> {}, nolock |-> {}, targets |-> {},
         cp |-> NoCpblts]
\* EXIT_SUCCESS and EXIT_FAILURE
Success == "EXIT_SUCCESS"
Failure == "EXIT_FAILURE"
\* history of an iter_start: the number of records committed to the stream,
\* the number of ncntf_event_new calls begun, and whether every thread was
\* outside the library
\* no request yet
NoReq == [stream |-> "", start |-> -1, stop |-> -1, filter |-> ""]
\* a session in status NC_SESSION_STATUS_WORKING without subscription
NoSession == [status |-> "working", ntf_active |-> 0, at |-> "out",
              sent |-> 0, complete |-> 0, result |-> -2, rpc |-> NoReq]
NoOpen == [len |-> 0, pubs |-> 0, quiet |-> FALSE]
\* no ncntf_stream_allow_events call is running
NoAllow == [stream |-> "", event |-> "", end |-> 0]
\* no ncntf_dispatch_receive runs on the session and nothing is to be read
NoRecv == [at |-> "out", inq |-> <<>>, seen |-> <<>>, taken |-> 0,
           result |-> -2, other |-> -2]

VARIABLES
    now,          \* time(NULL)
    evfile,       \* <streams_path>/<name>.events : sequence of cells
    rules,        \* <streams_path>/<name>.rules, the mapped text: its lines
    flock,        \* lockf() owner of each events file (a process) or None
    inbox,        \* per process: incoming queue of its D-Bus connection
    matches,      \* per process: match rules added on the bus, per stream
    inited,       \* per process: ncntf_config != NULL
    dbus,         \* per process: the static dbus connection: "null", "open"
                  \* or "closed" (the bus has dropped the connection)
    dmut,         \* per process: the thread that owns dbus_mut, or None
    streams,      \* per process: the list `streams` of struct stream
    pos,          \* per process and stream: file offset of fd_events
    smut,         \* per process: streams_mut, [owner, stuck]
    replay_done,  \* per thread: the value under key ncntf_replay_done
    pc,           \* per thread: where it is inside an API call
    ev,           \* per thread: locals of a running ncntf_event_new
    sub,          \* per thread: stream, start, stop its caller iterates with
    ret,          \* per thread: what its last call of the API returned
    allow,        \* per thread: locals of a running
                  \* ncntf_stream_allow_events
    session,      \* per thread: the struct nc_session it serves, the
                  \* create-subscription it was last given, and where its
                  \* ncntf_dispatch_send stands
    recv,         \* per thread: the ncntf_dispatch_receive that runs on
                  \* its session, and what the session has to read
    nPub, nIter, nNew, nInit, nAllow, nFail,   \* calls made so far
    committed,    \* history: per stream, the appends in commit order, each
                  \* with its publish, its timestamp and its thread
    busLog,       \* history: the signals sent on the bus
    out,          \* history: per thread, what its iteration returned so far
    opened,       \* history: the state at the thread's iter_start, see NoOpen
    last,         \* history: what the thread's last iter_next call returned
    polledPast    \* history: the thread polled the bus with stop < now

vars == <<now, evfile, rules, flock, inbox, matches, inited, dbus, dmut, streams,
          pos, smut, replay_done, pc, ev, sub, ret, allow, session, recv, nPub,
          nIter,
          nNew,
          nInit,
          nAllow, nFail, committed, busLog, out, opened, last, polledPast>>

fsVars == <<evfile, rules, flock>>
busVars == <<inbox, matches>>
procVars == <<inited, dbus, dmut, streams, pos, smut>>
cntVars == <<nPub, nIter, nNew, nInit, nAllow, nFail>>
iterHist == <<out, opened, last, polledPast>>

(* ------------------------------ cells --------------------------------- *)
\* a cell is [k, id, v]: what one write() put into the file
LenCell(id) == [k |-> "len", id |-> id, v |-> 1]
TsCell(id, t) == [k |-> "ts", id |-> id, v |-> t]
PlCell(id) == [k |-> "payload", id |-> id, v |-> id]
\* bytes nobody wrote (a hole left by writing past the end of the file)
Hole == [k |-> "hole", id |-> 0, v |-> 0]

\* write(fd, cell) at file offset off (offsets start at 0)
RECURSIVE Pad(_, _)
Pad(f, n) == IF Len(f) >= n THEN f ELSE Pad(Append(f, Hole), n)

WriteAt(f, off, c) ==
    IF off < Len(f) THEN [f EXCEPT ![off + 1] = c]
    ELSE Append(Pad(f, off), c)

\* variant: the file keeps what was written
TruncateKeep(f, off) == f

\* ftruncate(fd, off)
Truncate(f, off) == IF off <= Len(f) THEN SubSeq(f, 1, off) ELSE Pad(f, off)

(* ------------------------- the stream file header --------------------- *)
\* the header buffer write_fileheader prepares: magic, name, replay flag
HeaderBuf(name, replay) ==
    [k |-> "NCSTREAM", id |-> StreamIdx(name), v |-> replay]

\* what write_fileheader writes: write(fd, &header, offset) sends the bytes
\* at the address of the pointer variable, not the buffer it points to, so
\* the file starts with a pointer value and stack bytes, never with the magic
HeaderWritten(name, replay) == [k |-> "pointer", id |-> 0, v |-> 0]

\* read_fileheader: NULL unless the file starts with the magic bytes
ReadFileHeader(f) ==
    IF Len(f) = 0 THEN Null
    ELSE IF f[1].k # "NCSTREAM" THEN Null
    ELSE [name |-> IdxStream(f[1].id), replay |-> f[1].v, data |-> 1,
          locked |-> 0]

(* ------------------------------ registry ------------------------------ *)
\* variant: the search of the list finds nothing
InRegNever(reg, name) == FALSE

\* the search of the list of streams for a name
InReg(reg, name) == \E i \in 1 .. Len(reg) : reg[i].name = name

RegIdx(reg, name) ==
    CHOOSE i \in 1 .. Len(reg) :
        /\ reg[i].name = name
        /\ \A j \in 1 .. (i - 1) : reg[j].name # name

\* the list after ncntf_stream_get(name): a stream missing from the list is
\* looked for in the directory and put at the head of the list
RegAfterGet(reg, files, name) ==
    IF InReg(reg, name) THEN reg
    ELSE IF ReadFileHeader(files[name]) # Null
         THEN <<ReadFileHeader(files[name])>> \o reg
         ELSE reg

\* the value ncntf_stream_get(name) returns
StreamGet(reg, files, name) ==
    IF InReg(reg, name) THEN reg[RegIdx(reg, name)]
    ELSE ReadFileHeader(files[name])

\* the file offsets after ncntf_stream_get: a stream just loaded stands
\* right behind its header
PosAfterGet(ps, reg, files, name) ==
    IF InReg(reg, name) \/ ReadFileHeader(files[name]) = Null THEN ps
    ELSE [ps EXCEPT ![ReadFileHeader(files[name]).name] =
              ReadFileHeader(files[name]).data]

\* the scan of the directory in ncntf_streams_init, last entry first
RECURSIVE LoadFrom(_, _, _)
LoadFrom(files, n, reg) ==
    IF n = 0 THEN reg
    ELSE LoadFrom(files, n - 1,
                  IF ReadFileHeader(files[DirOrder[n]]) # Null
                  THEN <<ReadFileHeader(files[DirOrder[n]])>> \o reg
                  ELSE reg)

(* --------------------------- allow-rule store ------------------------- *)
\* a rule store is the sequence of its lines, each written as the name and
\* a newline.  ncntf_event_isallowed on the text of a rule store: some token
\* of strtok(rules, "\n") is the event; strtok gives no empty token
Allowed(r, e) == e # "" /\ \E i \in 1 .. Len(r) : r[i] = e

\* strlen of the text of a rule store
RECURSIVE Used(_)
Used(r) == IF r = <<>> THEN 0 ELSE NameLen(Head(r)) + 1 + Used(Tail(r))

\* the text of the store and its terminating zero lie inside the mapping
Fits(r) == Used(r) + 1 <= RulesSize

\* the text after ncntf_stream_allow_events
AllowEvent(r, e) == IF Allowed(r, e) THEN r ELSE Append(r, e)

RECURSIVE AllowAll(_, _, _)
AllowAll(r, es, n) ==
    IF n > Len(es) THEN r ELSE AllowAll(AllowEvent(r, es[n]), es, n + 1)

(* ------------------------------- locks -------------------------------- *)
\* pthread_mutex_lock(streams_mut) returns to thread t: the mutex is
\* recursive
MutexFree(p, t) == smut[p].owner \in {None, t}

\* pthread_mutex_lock(dbus_mut) returns to thread t: the mutex is recursive
DbusMutFree(p, t) == dmut[p] \in {None, t}

\* variant: an unlock that leaves the mutex with its owner
ReleasedKept(m) == m

\* streams_mut after a matching unlock: still owned when an earlier call of
\* the owner returned without unlocking
Released(m) == IF m.stuck THEN m ELSE [owner |-> None, stuck |-> FALSE]

\* variant: a file lock that excludes nobody
LockAlwaysAvailable(S, p) == TRUE

\* lockf(fd, F_LOCK, 0) returns to process p: record locks exclude other
\* processes, not the threads of the owner
LockAvailable(S, p) == flock[S] \in {None, p}

AllIdle(p) == \A t \in ThreadsOf(p) : pc[t] = "idle"

(* ------------------------------- Init --------------------------------- *)
Init ==
    /\ now = 0
    /\ evfile = [S \in Streams |-> <<>>]
    /\ rules = [S \in Streams |-> <<>>]
    /\ flock = [S \in Streams |-> None]
    /\ inbox = [p \in Procs |-> <<>>]
    /\ matches = [p \in Procs |-> [S \in Streams |-> 0]]
    /\ inited = [p \in Procs |-> FALSE]
    /\ dbus = [p \in Procs |-> "null"]
    /\ dmut = [p \in Procs |-> None]
    /\ allow = [t \in Threads |-> NoAllow]
    /\ recv = [t \in Threads |-> NoRecv]
    /\ streams = [p \in Procs |-> <<>>]
    /\ pos = [p \in Procs |-> [S \in Streams |-> 0]]
    /\ smut = [p \in Procs |-> [owner |-> None, stuck |-> FALSE]]
    /\ replay_done = [t \in Threads |-> NullPtr]
    /\ pc = [t \in Threads |-> "idle"]
    /\ ev = [t \in Threads |-> NoEv]
    /\ sub = [t \in Threads |-> NoSub]
    /\ ret = [t \in Threads |-> None]
    /\ session = [t \in Threads |-> NoSession]
    /\ nPub = 0 /\ nIter = 0 /\ nNew = 0 /\ nInit = 0 /\ nAllow = 0
    /\ nFail = 0
    /\ committed = [S \in Streams |-> <<>>]
    /\ busLog = {}
    /\ out = [t \in Threads |-> <<>>]
    /\ opened = [t \in Threads |-> NoOpen]
    /\ last = [t \in Threads |-> "none"]
    /\ polledPast = [t \in Threads |-> FALSE]

(* ------------------------ ncntf_init, ncntf_close --------------------- *)
\* a new struct stream of ncntf_stream_new, after write_fileheader
NewStream(name, replay) ==
    [name |-> name, replay |-> replay, data |-> 1, locked |-> 0]

\* ncntf_init: new key for replay_done, connect to the bus, load the stream
\* files of the directory, and create the NETCONF stream when none was loaded
NcntfInit(p) ==
    /\ ~inited[p]
    /\ nInit < MaxInit
    /\ AllIdle(p)
    /\ nInit' = nInit + 1
    /\ inited' = [inited EXCEPT ![p] = TRUE]
    /\ dbus' = [dbus EXCEPT ![p] = "open"]
    /\ dmut' = [dmut EXCEPT ![p] = None]
    /\ replay_done' = [t \in Threads |->
                          IF ProcOf(t) = p THEN NullPtr ELSE replay_done[t]]
    /\ LET reg0 == LoadFrom(evfile, Len(DirOrder), streams[p])
           pos0 == [S \in Streams |->
                       IF InReg(reg0, S) THEN reg0[RegIdx(reg0, S)].data
                       ELSE 0]
       IN  IF InReg(reg0, "NETCONF")
           THEN /\ streams' = [streams EXCEPT ![p] = reg0]
                /\ pos' = [pos EXCEPT ![p] = pos0]
                /\ UNCHANGED <<evfile, rules, nFail>>
           ELSE \/ /\ streams' = [streams EXCEPT
                         ![p] = <<NewStream("NETCONF", 1)>> \o reg0]
                   /\ evfile' = [evfile EXCEPT
                         !["NETCONF"] = <<HeaderWritten("NETCONF", 1)>>]
                   /\ pos' = [pos EXCEPT
                         ![p] = [pos0 EXCEPT !["NETCONF"] = 1]]
                   /\ rules' = [rules EXCEPT
                         !["NETCONF"] =
                             AllowAll(rules["NETCONF"], BaseEvents, 1)]
                   /\ UNCHANGED nFail
                \/ \* the write of the header fails in ncntf_stream_new,
                   \* whose return value is not looked at; the calls of
                   \* ncntf_stream_allow_events find no stream
                   /\ nFail < MaxFail
                   /\ nFail' = nFail + 1
                   /\ streams' = [streams EXCEPT ![p] = reg0]
                   /\ evfile' = [evfile EXCEPT !["NETCONF"] = <<>>]
                   /\ pos' = [pos EXCEPT ![p] = pos0]
                   /\ UNCHANGED rules
    /\ UNCHANGED <<session, now, recv, allow, ret, flock, busVars, smut, pc, ev, sub, nPub, nIter,
                   nNew, nAllow, committed, busLog, iterHist>>

\* ncntf_close: drop the connection, free every stream (closing a descriptor
\* of a file drops the record locks of the process on it), destroy the mutexes
NcntfClose(p) ==
    /\ inited[p]
    /\ AllIdle(p)
    /\ inited' = [inited EXCEPT ![p] = FALSE]
    /\ dbus' = [dbus EXCEPT ![p] = "null"]
    /\ dmut' = [dmut EXCEPT ![p] = None]
    /\ streams' = [streams EXCEPT ![p] = <<>>]
    /\ pos' = [pos EXCEPT ![p] = [S \in Streams |-> 0]]
    /\ flock' = [S \in Streams |->
                    IF flock[S] = p /\ InReg(streams[p], S) THEN None
                    ELSE flock[S]]
    /\ smut' = [smut EXCEPT ![p] = [owner |-> None, stuck |-> FALSE]]
    /\ UNCHANGED <<session, now, recv, allow, ret, evfile, rules, busVars, replay_done, pc, ev, sub,
                   cntVars, committed, busLog, iterHist>>

(* ------------------ ncntf_stream_new, _allow_events ------------------- *)
\* ncntf_stream_new(name, desc, replay): fails when the name is in the list
\* of this process; else write_fileheader opens the events file with O_TRUNC
\* and writes the header, map_rules maps the (kept) rules file, and the
\* stream goes to the head of the list
NcntfStreamNew(t, name, replay) ==
    LET p == ProcOf(t) IN
    /\ inited[p]
    /\ pc[t] = "idle"
    /\ nNew < MaxNew
    /\ MutexFree(p, t)
    /\ nNew' = nNew + 1
    /\ IF InReg(streams[p], name)
       THEN /\ ret' = [ret EXCEPT ![t] = Failure]
            /\ UNCHANGED <<evfile, streams, pos, nFail>>
       ELSE \/ /\ evfile' = [evfile EXCEPT
                      ![name] = <<HeaderWritten(name, replay)>>]
               /\ streams' = [streams EXCEPT
                     ![p] = <<NewStream(name, replay)>> \o streams[p]]
               /\ pos' = [pos EXCEPT ![p][name] = 1]
               /\ ret' = [ret EXCEPT ![t] = Success]
               /\ UNCHANGED nFail
            \/ \* the write of the header fails: ftruncate(fd, 0)
               /\ nFail < MaxFail
               /\ nFail' = nFail + 1
               /\ evfile' = [evfile EXCEPT ![name] = <<>>]
               /\ ret' = [ret EXCEPT ![t] = Failure]
               /\ UNCHANGED <<streams, pos>>
    /\ UNCHANGED <<session, now, recv, allow, rules, flock, busVars, inited, dbus, dmut, smut, replay_done,
                   pc, ev, sub, nPub, nIter, nInit, nAllow, committed,
                   busLog, iterHist>>

\* ncntf_stream_allow_events(stream, event): nothing to do when the event
\* is allowed already, else the event and a newline are copied behind the
\* last newline of the text.  Nothing compares the length of the text with
\* the size of the mapping: a line that does not fit is written all the
\* same, its end beyond the mapping, in the memory of the calling process.
NcntfStreamAllowEvents(t, S, e) ==
    LET p == ProcOf(t)
        reg == RegAfterGet(streams[p], evfile, S)
        s == StreamGet(streams[p], evfile, S)
    IN
    /\ inited[p]
    /\ pc[t] = "idle"
    /\ nAllow < MaxAllow
    /\ nAllow' = nAllow + 1
    /\ streams' = [streams EXCEPT ![p] = reg]
    /\ pos' = [pos EXCEPT ![p] = PosAfterGet(pos[p], streams[p], evfile, S)]
    /\ IF s = Null
       THEN /\ ret' = [ret EXCEPT ![t] = Failure]
            /\ UNCHANGED rules
       ELSE /\ ret' = [ret EXCEPT ![t] = Success]
            /\ rules' = [rules EXCEPT ![s.name] = AllowEvent(rules[s.name], e)]
    /\ UNCHANGED <<session, now, recv, allow, evfile, flock, busVars, inited, dbus, dmut, smut,
                   replay_done, pc, ev, sub, nPub, nIter, nNew, nInit, nFail,
                   committed, busLog, iterHist>>

\* a process that wrote beyond the mapping of a rule store of its list gets
\* SIGSEGV, at the write or at any later time: its threads end, the kernel
\* drops its file locks and its connection to the bus
Segfault(p) ==
    /\ \E i \in DOMAIN streams[p] : ~Fits(rules[streams[p][i].name])
    /\ \E t \in ThreadsOf(p) : pc[t] # "dead"
    /\ pc' = [t \in Threads |-> IF ProcOf(t) = p THEN "dead" ELSE pc[t]]
    /\ flock' = [S \in Streams |-> IF flock[S] = p THEN None ELSE flock[S]]
    /\ inbox' = [inbox EXCEPT ![p] = <<>>]
    /\ matches' = [matches EXCEPT ![p] = [S \in Streams |-> 0]]
    /\ UNCHANGED <<session, now, recv, allow, ret, evfile, rules, procVars, replay_done, ev, sub,
                   cntVars, committed, busLog, iterHist>>

\* time passes
Tick ==
    /\ now < MaxTime
    /\ now' = now + 1
    /\ UNCHANGED <<allow, recv, session, ret, fsVars, busVars, procVars,
                   replay_done, pc, ev, sub, cntVars, committed, busLog,
                   iterHist>>

(* ------------------------- capability change -------------------------- *)
\* strings are sequences of characters; Nul is what lies behind the last one
Nul == "NUL"
\* capability URIs: two bases, one a beginning of the other, and parameters
Uris == {<<"a">>, <<"a", "b">>, <<"a", "?", "1">>, <<"a", "?", "2">>}
\* struct nc_cpblts: lists of at most MaxCaps URIs
CpbltLists == UNION {[1 .. n -> Uris] : n \in 0 .. MaxCaps}

\* u[k] of C
CharAt(u, k) == IF k < Len(u) THEN u[k + 1] ELSE Nul

\* poffset: strchr(u, '?') - u when u has a '?', strlen(u) otherwise
Poffset(u) ==
    IF \E k \in 1 .. Len(u) : u[k] = "?"
    THEN (CHOOSE k \in 1 .. Len(u) :
             u[k] = "?" /\ \A m \in 1 .. k - 1 : u[m] # "?") - 1
    ELSE Len(u)

\* strncmp(x, y, n) == 0
StrNCmpEq(x, y, n) == \A k \in 0 .. n - 1 : CharAt(x, k) = CharAt(y, k)

\* the while loop over list: the first j with strncmp(u, list[j], n) == 0,
\* Len(list) + 1 when the terminating NULL is reached
FindCpblt(list, u, n) ==
    IF \E j \in 1 .. Len(list) : StrNCmpEq(u, list[j], n)
    THEN CHOOSE j \in 1 .. Len(list) :
            /\ StrNCmpEq(u, list[j], n)
            /\ \A m \in 1 .. j - 1 : ~StrNCmpEq(u, list[m], n)
    ELSE Len(list) + 1

CpbltEntry(kind, uri) == [kind |-> kind, uri |-> uri]

\* "find created capabilities": the loop over new from position i
RECURSIVE CpbltCreated(_, _, _)
CpbltCreated(old, new, i) ==
    IF i > Len(new) THEN <<>>
    ELSE LET u == new[i]
             poffset == Poffset(u)
             j == FindCpblt(old, u, poffset)
             aux1 == IF j <= Len(old)
                     THEN IF CharAt(old[j], poffset) \in {"?", Nul}
                             /\ u # old[j]
                          THEN <<CpbltEntry("modified-capability", u)>>
                          ELSE <<>>
                     ELSE <<CpbltEntry("added-capability", u)>>
         IN aux1 \o CpbltCreated(old, new, i + 1)

\* "find deleted capabilities": the loop over old from position i
RECURSIVE CpbltDeleted(_, _, _)
CpbltDeleted(old, new, i) ==
    IF i > Len(old) THEN <<>>
    ELSE LET u == old[i]
             poffset == Poffset(u)
             j == FindCpblt(new, u, poffset)
             aux1 == IF j > Len(new)
                     THEN <<CpbltEntry("deleted-capability", u)>>
                     ELSE <<>>
         IN aux1 \o CpbltDeleted(old, new, i + 1)

\* aux2 of case NCNTF_BASE_CPBLT_CHANGE: the entries of the event
CpbltChange(old, new) == CpbltCreated(old, new, 1) \o CpbltDeleted(old, new, 1)

\* ncntf_stream_allow_events(stream, event) statement by statement; no
\* statement of it locks streams_mut.  First ncntf_event_isallowed and
\* ncntf_stream_get.
AllowCheck(t, S, e) ==
    LET p == ProcOf(t)
        reg == RegAfterGet(streams[p], evfile, S)
        s == StreamGet(streams[p], evfile, S)
    IN
    /\ inited[p]
    /\ pc[t] = "idle"
    /\ nAllow < MaxAllow
    /\ nAllow' = nAllow + 1
    /\ streams' = [streams EXCEPT ![p] = reg]
    /\ pos' = [pos EXCEPT ![p] = PosAfterGet(pos[p], streams[p], evfile, S)]
    /\ IF s = Null
       THEN /\ ret' = [ret EXCEPT ![t] = Failure]
            /\ UNCHANGED <<pc, allow>>
       ELSE IF Allowed(rules[s.name], e)
       THEN /\ ret' = [ret EXCEPT ![t] = Success]
            /\ UNCHANGED <<pc, allow>>
       ELSE /\ pc' = [pc EXCEPT ![t] = "al_end"]
            /\ allow' = [allow EXCEPT
                  ![t] = [stream |-> s.name, event |-> e, end |-> 0]]
            /\ UNCHANGED ret
    /\ UNCHANGED <<session, now, recv, fsVars, busVars, inited, dbus, dmut, smut,
                   replay_done, ev, sub, nPub, nIter, nNew, nInit, nFail,
                   committed, busLog, iterHist>>

\* end = strrchr(s->rules, '\n') + 1, or s->rules for an empty store: the
\* number of lines in front of end
AllowEnd(t) ==
    /\ pc[t] = "al_end"
    /\ allow' = [allow EXCEPT ![t].end = Len(rules[allow[t].stream])]
    /\ pc' = [pc EXCEPT ![t] = "al_write"]
    /\ UNCHANGED <<session, now, recv, ret, fsVars, busVars, procVars, replay_done,
                   ev, sub, cntVars, committed, busLog, iterHist>>

\* the text of a rule store after strcpy(end, event); strcpy(end +
\* strlen(event), "\n"): it ends behind the line written
StrcpyAt(r, end, e) ==
    SubSeq(r, 1, IF end <= Len(r) THEN end ELSE Len(r)) \o <<e>>

\* strcpy(end, event); strcpy(end + strlen(event), "\n"); return
AllowWrite(t) ==
    LET S == allow[t].stream IN
    /\ pc[t] = "al_write"
    /\ rules' = [rules EXCEPT
          ![S] = StrcpyAt(rules[S], allow[t].end, allow[t].event)]
    /\ ret' = [ret EXCEPT ![t] = Success]
    /\ allow' = [allow EXCEPT ![t] = NoAllow]
    /\ pc' = [pc EXCEPT ![t] = "idle"]
    /\ UNCHANGED <<session, now, recv, evfile, flock, busVars, procVars,
                   replay_done, ev, sub, cntVars, committed, busLog, iterHist>>

\* the bus drops the connection of process p: dbus_connection_read_write
\* will return FALSE
BusDisconnect(p) ==
    /\ dbus[p] = "open"
    /\ dbus' = [dbus EXCEPT ![p] = "closed"]
    /\ UNCHANGED <<session, now, recv, allow, ret, fsVars, busVars, inited, dmut, streams,
                   pos, smut, replay_done, pc, ev, sub, cntVars, committed,
                   busLog, iterHist>>

(* --------------------------- ncntf_event_new -------------------------- *)
\* the list with the `locked` flag of stream S set to v
SetLocked(reg, S, v) ==
    [i \in 1 .. Len(reg) |->
        IF reg[i].name = S THEN [reg[i] EXCEPT !.locked = v] ELSE reg[i]]

\* (uint64_t)x for a time_t x; uint64_t is TimeWidth bits wide here
U64(x) == x % (2 ^ TimeWidth)

\* (time_t)u for a uint64_t u
TimeT(u) == IF u >= 2 ^ (TimeWidth - 1) THEN u - 2 ^ TimeWidth ELSE u

\* "process the EventTime" of ncntf_event_new: the time of the event for the
\* parameter etime when time(NULL) is tnow
EventTime(etime, tnow) == IF etime = -1 THEN tnow ELSE etime

\* variant: a file loop that does not look at the replay flag
TargetAfterAnyReplay(reg, r, ename, cur) ==
    LET from == IF cur = "" THEN 0 ELSE RegIdx(reg, cur)
        cand == {j \in (from + 1) .. Len(reg) : Allowed(r[reg[j].name], ename)}
    IN  IF cand = {} THEN 0
        ELSE CHOOSE j \in cand : \A k \in cand : j <= k

\* the file loop of ncntf_event_new: position in the list of the next stream
\* behind stream `cur` that has replay on and allows the event, 0 when none
TargetAfter(reg, r, ename, cur) ==
    LET from == IF cur = "" THEN 0 ELSE RegIdx(reg, cur)
        cand == {j \in (from + 1) .. Len(reg) :
                    reg[j].replay # 0 /\ Allowed(r[reg[j].name], ename)}
    IN  IF cand = {} THEN 0
        ELSE CHOOSE j \in cand : \A k \in cand : j <= k

\* variant: a bus loop without the test of the allow rules
BusTargetsUnfiltered(reg, r, ename) == [i \in 1 .. Len(reg) |-> reg[i].name]

\* the bus loop of ncntf_event_new: the streams of the list that allow the
\* event, whatever their replay flag, in list order
BusTargets(reg, r, ename) ==
    SelectSeq([i \in 1 .. Len(reg) |-> reg[i].name],
              LAMBDA n : Allowed(r[n], ename))

\* the streams the file loop of a publish of event ename by process p
\* writes to: those of the list with replay on that allow the event
Targeted(p, ename) ==
    {streams[p][i].name : i \in {j \in DOMAIN streams[p] :
         streams[p][j].replay # 0
         /\ Allowed(rules[streams[p][j].name], ename)}}

\* entry of ncntf_event_new: the event time is resolved, the record is
\* formatted and streams_mut is taken
EventNewEntry(t, etime, ename, cp) ==
    LET p == ProcOf(t) IN
    /\ inited[p]
    /\ pc[t] = "idle"
    /\ nPub < MaxPub
    /\ MutexFree(p, t)
    /\ nPub' = nPub + 1
    /\ ev' = [ev EXCEPT ![t] = [id |-> nPub + 1,
                                time |-> U64(EventTime(etime, now)),
                                ename |-> ename, s |-> "", off |-> 0,
                                failed |-> FALSE, lost |-> {},
                                nolock |-> {},
                                targets |-> Targeted(p, ename),
                                cp |-> cp]]
    /\ smut' = [smut EXCEPT ![p].owner = t]
    /\ pc' = [pc EXCEPT ![t] = "ev_file"]
    /\ UNCHANGED <<session, now, recv, allow, ret, fsVars, busVars, inited, dbus, dmut, streams, pos,
                   replay_done, sub, nIter, nNew, nInit, nAllow, nFail,
                   committed, busLog, iterHist>>

\* ncntf_event_new(etime, event, ...) for an event named ename that is no
\* capability change
EventNewBegin(t, etime, ename) == EventNewEntry(t, etime, ename, NoCpblts)

\* ncntf_event_new(etime, NCNTF_BASE_CPBLT_CHANGE, old, new, by)
EventNewCpblt(t, etime, old, new) ==
    EventNewEntry(t, etime, "netconf-capability-change",
                  [old |-> old, new |-> new,
                   content |-> CpbltChange(old, new)])

\* variant: a failure ends the file loop
AfterFailureStop(reg, S) == reg[Len(reg)].name

\* where the file loop stands after a failure on stream S: at S, so that
\* s = s->next is the next stream looked at
AfterFailure(reg, S) == S

\* the revert of a failed write: ftruncate to the offset before the append,
\* lseek there, unlock; the loop goes on with the next stream
EventNewRevert(t, S, off) ==
    LET p == ProcOf(t) IN
    /\ nFail < MaxFail
    /\ nFail' = nFail + 1
    /\ evfile' = [evfile EXCEPT ![S] = Truncate(evfile[S], off)]
    /\ pos' = [pos EXCEPT ![p][S] = off]
    /\ flock' = [flock EXCEPT ![S] = None]
    /\ streams' = [streams EXCEPT ![p] = SetLocked(streams[p], S, 0)]
    /\ ev' = [ev EXCEPT ![t].s = AfterFailure(streams[p], S), ![t].off = off,
                         ![t].failed = TRUE, ![t].lost = ev[t].lost \cup {S}]
    /\ pc' = [pc EXCEPT ![t] = "ev_file"]
    /\ UNCHANGED <<smut, committed>>

\* ncntf_stream_lock fails (lockf gives -1): a warning, nothing is written,
\* the loop goes on with the next stream
EventNewNoLock(t, S) ==
    LET p == ProcOf(t) IN
    /\ nFail < MaxFail
    /\ nFail' = nFail + 1
    /\ ev' = [ev EXCEPT ![t].s = AfterFailure(streams[p], S),
                         ![t].failed = TRUE,
                         ![t].nolock = ev[t].nolock \cup {S}]
    /\ pc' = [pc EXCEPT ![t] = "ev_file"]
    /\ UNCHANGED <<evfile, pos, flock, streams, smut, committed>>

\* variant: the append starts at the current offset, without the lseek
SeekStay(f, cur) == cur

\* lseek(fd_events, 0, SEEK_END) on file f, the offset standing at cur
SeekEnd(f, cur) == Len(f)

\* the file loop reaches the next target stream: ncntf_stream_lock, lseek to
\* the end, write of len; or no target is left and streams_mut is released
EventNewFile(t) ==
    LET p == ProcOf(t)
        e == ev[t]
        j == TargetAfter(streams[p], rules, e.ename, e.s)
    IN
    /\ pc[t] = "ev_file"
    /\ IF j = 0
       THEN /\ smut' = [smut EXCEPT ![p] = Released(smut[p])]
            /\ pc' = [pc EXCEPT ![t] = "ev_bus"]
            /\ UNCHANGED <<evfile, flock, streams, pos, ev, nFail, committed>>
       ELSE LET S == streams[p][j].name
                off == SeekEnd(evfile[S], pos[p][S])
            IN  \/ /\ LockAvailable(S, p)
                   /\ \/ /\ evfile' = [evfile EXCEPT
                               ![S] = WriteAt(evfile[S], off, LenCell(e.id))]
                         /\ pos' = [pos EXCEPT ![p][S] = off + 1]
                         /\ flock' = [flock EXCEPT ![S] = p]
                         /\ streams' = [streams EXCEPT
                               ![p] = SetLocked(streams[p], S, 1)]
                         /\ ev' = [ev EXCEPT ![t].s = S, ![t].off = off]
                         /\ pc' = [pc EXCEPT ![t] = "ev_ts"]
                         /\ UNCHANGED <<smut, nFail, committed>>
                      \/ EventNewRevert(t, S, off)
                \/ EventNewNoLock(t, S)
    /\ UNCHANGED <<session, now, recv, allow, ret, rules, busVars, inited, dbus, dmut, replay_done, sub, nPub,
                   nIter, nNew, nInit, nAllow, busLog, iterHist>>

\* write of the timestamp at the file offset
EventNewTs(t) ==
    LET p == ProcOf(t)
        e == ev[t]
    IN
    /\ pc[t] = "ev_ts"
    /\ \/ /\ evfile' = [evfile EXCEPT
                ![e.s] = WriteAt(evfile[e.s], pos[p][e.s], TsCell(e.id, e.time))]
          /\ pos' = [pos EXCEPT ![p][e.s] = pos[p][e.s] + 1]
          /\ pc' = [pc EXCEPT ![t] = "ev_pl"]
          /\ UNCHANGED <<flock, streams, ev, smut, nFail, committed>>
       \/ EventNewRevert(t, e.s, e.off)
    /\ UNCHANGED <<session, now, recv, allow, ret, rules, busVars, inited, dbus, dmut, replay_done, sub, nPub,
                   nIter, nNew, nInit, nAllow, busLog, iterHist>>

\* write of the payload at the file offset, then ncntf_stream_unlock
EventNewPayload(t) ==
    LET p == ProcOf(t)
        e == ev[t]
    IN
    /\ pc[t] = "ev_pl"
    /\ \/ /\ evfile' = [evfile EXCEPT
                ![e.s] = WriteAt(evfile[e.s], pos[p][e.s], PlCell(e.id))]
          /\ pos' = [pos EXCEPT ![p][e.s] = pos[p][e.s] + 1]
          /\ flock' = [flock EXCEPT ![e.s] = None]
          /\ streams' = [streams EXCEPT ![p] = SetLocked(streams[p], e.s, 0)]
          /\ committed' = [committed EXCEPT
                ![e.s] = Append(committed[e.s],
                                [id |-> e.id, t |-> e.time, by |-> t])]
          /\ pc' = [pc EXCEPT ![t] = "ev_file"]
          /\ UNCHANGED <<ev, smut, nFail>>
       \/ EventNewRevert(t, e.s, e.off)
    /\ UNCHANGED <<session, now, recv, allow, ret, rules, busVars, inited, dbus, dmut, replay_done, sub, nPub,
                   nIter, nNew, nInit, nAllow, busLog, iterHist>>

\* the value ncntf_event_new returns once it has reached the file loop:
\* ret is EXIT_SUCCESS since its declaration and neither a failed write nor
\* a failed ncntf_stream_lock assigns it; `failed` says that an append of
\* the call was reverted or skipped for a failed lock
EventNewRet(failed) == Success

\* the announcement: one Event signal per allowing stream of the list, each
\* delivered to every connection with a match rule for the path
EventNewBus(t) ==
    LET p == ProcOf(t)
        e == ev[t]
        tg == IF dbus[p] # "open" THEN <<>>
              ELSE BusTargets(streams[p], rules, e.ename)
        msgs == [i \in 1 .. Len(tg) |->
                    [path |-> tg[i], t |-> e.time, id |-> e.id]]
    IN
    /\ pc[t] = "ev_bus"
    /\ DbusMutFree(p, t)
    /\ inbox' = [q \in Procs |->
                    inbox[q] \o SelectSeq(msgs,
                                   LAMBDA m : matches[q][m.path] > 0)]
    /\ busLog' = busLog \cup {msgs[i] : i \in 1 .. Len(msgs)}
    /\ pc' = [pc EXCEPT ![t] = "idle"]
    /\ ev' = [ev EXCEPT ![t] = NoEv]
    /\ ret' = [ret EXCEPT ![t] = EventNewRet(e.failed)]
    /\ UNCHANGED <<session, now, recv, allow, fsVars, matches, procVars, replay_done, sub, cntVars,
                   committed, iterHist>>

\* one of the steps of a ncntf_event_new call of thread t
EventNewStep(t) ==
    EventNewFile(t) \/ EventNewTs(t) \/ EventNewPayload(t) \/ EventNewBus(t)

(* ------------------------------ iterator ------------------------------ *)
\* variant: a window that excludes its stop bound
InWindowExclusive(start, stop, t) ==
    /\ ~(start # -1 /\ start > TimeT(t))
    /\ ~(stop # -1 /\ stop <= TimeT(t))

\* the boundary checks of ncntf_stream_iter_next on a timestamp
InWindow(start, stop, t) ==
    /\ ~(start # -1 /\ start > TimeT(t))
    /\ ~(stop # -1 /\ stop < TimeT(t))

Item(src, id, t) == [src |-> src, id |-> id, t |-> t]

\* the read loop of ncntf_stream_iter_next on file f from offset off.
\* `checked` says that the test "offset < end of file" was already passed
\* for the record at off.  Result: "rec" (a record is returned), "eof"
\* (nothing left to read) or "short" (a read() returned 0); the offset
\* reached; the records skipped on the way.
RECURSIVE Scan(_, _, _, _, _, _)
Scan(f, off, start, stop, checked, acc) ==
    IF ~checked /\ ~(off < Len(f))
    THEN [res |-> "eof", off |-> off, skipped |-> acc, id |-> 0, t |-> 0]
    ELSE IF off >= Len(f)
    THEN [res |-> "short", off |-> off, skipped |-> acc, id |-> 0, t |-> 0]
    ELSE IF off + 1 >= Len(f)
    THEN [res |-> "short", off |-> off + 1, skipped |-> acc, id |-> 0, t |-> 0]
    ELSE IF ~InWindow(start, stop, f[off + 2].v)
    THEN Scan(f, off + 2 + f[off + 1].v, start, stop, FALSE,
              Append(acc, Item("skip", f[off + 2].id, f[off + 2].v)))
    ELSE IF f[off + 1].v <= 0 \/ off + 2 >= Len(f)
    THEN [res |-> "short", off |-> off + 2, skipped |-> acc, id |-> 0, t |-> 0]
    ELSE [res |-> "rec",
          off |-> IF off + 2 + f[off + 1].v <= Len(f)
                  THEN off + 2 + f[off + 1].v ELSE Len(f),
          skipped |-> acc, id |-> f[off + 3].id, t |-> f[off + 2].v]

\* variant: a D-Bus loop that returns the first signal whatever its time
PopBusUnfiltered(q, start, stop) ==
    IF q = <<>> THEN [found |-> FALSE, id |-> 0, t |-> 0, rest |-> q]
    ELSE [found |-> TRUE, id |-> Head(q).id, t |-> Head(q).t, rest |-> Tail(q)]

\* the D-Bus loop of ncntf_stream_iter_next on the incoming queue q: signals
\* outside the window are dropped, the first one inside is returned
RECURSIVE PopBus(_, _, _)
PopBus(q, start, stop) ==
    IF q = <<>> THEN [found |-> FALSE, id |-> 0, t |-> 0, rest |-> q]
    ELSE IF InWindow(start, stop, Head(q).t)
    THEN [found |-> TRUE, id |-> Head(q).id, t |-> Head(q).t, rest |-> Tail(q)]
    ELSE PopBus(Tail(q), start, stop)

\* variant: an entry that does not test start
ReplayDoneUntested(rd, start) == rd

\* replay_done after the test of start at the entry of ncntf_stream_iter_next
ReplayDoneAtEntry(rd, start) == IF start = -1 THEN 1 ELSE rd

\* the condition of ncntf_stream_iter_next to read the file, without the
\* test of the offset
Replaying(rd, start, replay) == rd = 0 /\ start # -1 /\ replay = 1

\* variant: replayComplete is returned without flipping replay_done
ReplayDoneKept(rd) == rd

\* replay_done after replayComplete was returned
ReplayDoneAfterComplete(rd) == 1

\* ncntf_stream_iter_start(stream): the file offset of the stream goes back
\* to the first record, a match rule for the stream is added on the bus, the
\* thread gets a fresh replay_done = 0.  start and stop are the values the
\* caller will pass to ncntf_stream_iter_next.
IterStart(t, S, start, stop) ==
    LET p == ProcOf(t)
        reg == RegAfterGet(streams[p], evfile, S)
        s == StreamGet(streams[p], evfile, S)
    IN
    /\ inited[p]
    /\ pc[t] = "idle"
    /\ nIter < MaxIter
    /\ MutexFree(p, t)
    /\ DbusMutFree(p, t)
    /\ nIter' = nIter + 1
    /\ streams' = [streams EXCEPT ![p] = reg]
    /\ IF s = Null
       THEN UNCHANGED <<pos, matches, replay_done, sub, out, opened, last>>
       ELSE /\ pos' = [pos EXCEPT ![p][s.name] = s.data]
            /\ matches' = [matches EXCEPT ![p][S] = matches[p][S] + 1]
            /\ replay_done' = [replay_done EXCEPT ![t] = 0]
            /\ sub' = [sub EXCEPT
                  ![t] = [stream |-> S, start |-> start, stop |-> stop]]
            /\ out' = [out EXCEPT ![t] = <<>>]
            /\ opened' = [opened EXCEPT
                  ![t] = [len |-> Len(committed[S]), pubs |-> nPub,
                          quiet |-> \A x \in Threads : pc[x] = "idle"]]
            /\ last' = [last EXCEPT ![t] = "none"]
    /\ UNCHANGED <<now, recv, allow, ret, fsVars, inbox, inited, dbus, dmut, smut, pc, ev, nPub,
                   nNew, nInit, nAllow, nFail, committed, busLog, polledPast>>

\* ncntf_stream_iter_start(stream) called by the application, for a window
\* start, stop it will give to ncntf_stream_iter_next
NcntfStreamIterStart(t, S, start, stop) ==
    IterStart(t, S, start, stop) /\ UNCHANGED session

\* ncntf_stream_iter_finnish(stream): the match rule is removed and
\* replay_done of the thread is set to 0
IterFinnish(t) ==
    LET p == ProcOf(t)
        S == sub[t].stream
    IN
    /\ inited[p]
    /\ pc[t] = "idle"
    /\ sub[t] # NoSub
    /\ replay_done[t] # NullPtr
    /\ DbusMutFree(p, t)
    /\ matches' = [matches EXCEPT
          ![p][S] = IF matches[p][S] > 0 THEN matches[p][S] - 1 ELSE 0]
    /\ replay_done' = [replay_done EXCEPT ![t] = 0]
    /\ sub' = [sub EXCEPT ![t] = NoSub]
    /\ out' = [out EXCEPT ![t] = <<>>]
    /\ last' = [last EXCEPT ![t] = "none"]
    /\ UNCHANGED <<now, recv, allow, ret, fsVars, inbox, procVars, pc, ev, cntVars,
                   committed, busLog, opened, polledPast>>

\* ncntf_stream_iter_finnish(stream) called by the application
NcntfStreamIterFinnish(t) == IterFinnish(t) /\ UNCHANGED session

\* the end of a ncntf_stream_iter_next call of thread t on stream S whose
\* read loop gave r, entered with replay_done = rd
IterReturn(t, S, r, rd) ==
    LET p == ProcOf(t)
        start == sub[t].start
        stop == sub[t].stop
        bus == IF dbus[p] = "closed"
               THEN [found |-> FALSE, id |-> 0, t |-> 0, rest |-> inbox[p]]
               ELSE PopBus(inbox[p], start, stop)
        polls == r.res = "eof" /\ rd # 0
    IN
    /\ polls => DbusMutFree(p, t)
    \* dbus_connection_read_write(dbus, 10) != 1: break with dbus_mut locked
    /\ dmut' = [dmut EXCEPT
          ![p] = IF polls /\ dbus[p] = "closed" THEN t ELSE dmut[p]]
    /\ pc' = [pc EXCEPT ![t] = "idle"]
    /\ pos' = [pos EXCEPT ![p][S] = r.off]
    /\ CASE r.res = "rec" ->
              \* the record is returned, file lock and streams_mut released
              /\ out' = [out EXCEPT
                    ![t] = (out[t] \o r.skipped) \o <<Item("file", r.id, r.t)>>]
              /\ last' = [last EXCEPT ![t] = "rec"]
              /\ replay_done' = [replay_done EXCEPT ![t] = rd]
              /\ flock' = [flock EXCEPT ![S] = None]
              /\ streams' = [streams EXCEPT ![p] = SetLocked(streams[p], S, 0)]
              /\ smut' = [smut EXCEPT ![p] = Released(smut[p])]
              /\ UNCHANGED <<inbox, polledPast>>
         [] r.res = "short" ->
              \* return (NULL) with the file lock and streams_mut still held
              /\ out' = [out EXCEPT ![t] = out[t] \o r.skipped]
              /\ last' = [last EXCEPT ![t] = "end"]
              /\ replay_done' = [replay_done EXCEPT ![t] = rd]
              /\ flock' = [flock EXCEPT ![S] = p]
              /\ streams' = [streams EXCEPT ![p] = SetLocked(streams[p], S, 1)]
              /\ smut' = [smut EXCEPT ![p] = [owner |-> t, stuck |-> TRUE]]
              /\ UNCHANGED <<inbox, polledPast>>
         [] r.res = "eof" /\ rd = 0 ->
              \* no more data: replayComplete, once
              /\ out' = [out EXCEPT
                    ![t] = (out[t] \o r.skipped) \o <<Item("rc", 0, now)>>]
              /\ last' = [last EXCEPT ![t] = "rc"]
              /\ replay_done' = [replay_done EXCEPT
                    ![t] = ReplayDoneAfterComplete(rd)]
              /\ smut' = [smut EXCEPT ![p] = Released(smut[p])]
              /\ UNCHANGED <<flock, streams, inbox, polledPast>>
         [] r.res = "eof" /\ rd # 0 ->
              \* try DBus
              /\ out' = [out EXCEPT
                    ![t] = IF bus.found
                           THEN Append(out[t], Item("bus", bus.id, bus.t))
                           ELSE out[t]]
              /\ last' = [last EXCEPT
                    ![t] = IF bus.found THEN "bus" ELSE "end"]
              /\ inbox' = [inbox EXCEPT ![p] = bus.rest]
              /\ replay_done' = [replay_done EXCEPT ![t] = rd]
              /\ polledPast' = [polledPast EXCEPT
                    ![t] = polledPast[t] \/ (stop # -1 /\ stop < now)]
              /\ smut' = [smut EXCEPT ![p] = Released(smut[p])]
              /\ UNCHANGED <<flock, streams>>

\* variant: the library is taken as initialised at all times
ConfigNullNever(i) == FALSE

\* ncntf_config == NULL, for a process whose `inited` is i
ConfigNull(i) == ~i

\* ncntf_stream_iter_next(stream, start, stop), called with the stream and
\* the window of the thread's ncntf_stream_iter_start
NcntfStreamIterNext(t) ==
    LET p == ProcOf(t)
        S == sub[t].stream
        start == sub[t].start
        stop == sub[t].stop
        s == StreamGet(streams[p], evfile, S)
        rd == ReplayDoneAtEntry(replay_done[t], start)
    IN
    /\ pc[t] = "idle"
    /\ sub[t] # NoSub
    /\ ~ConfigNull(inited[p]) => replay_done[t] # NullPtr
    /\ IF ConfigNull(inited[p])
       THEN \* return (NULL) at once
            /\ last' = [last EXCEPT ![t] = "end"]
            /\ UNCHANGED <<flock, inbox, streams, pos, smut, dmut,
                           replay_done, pc, out, polledPast>>
       ELSE IF start # -1 /\ stop # -1 /\ stop < start
       THEN \* check time boundaries
            /\ last' = [last EXCEPT ![t] = "end"]
            /\ UNCHANGED <<flock, inbox, streams, pos, smut, dmut,
                           replay_done, pc, out, polledPast>>
       ELSE /\ MutexFree(p, t)
            /\ IF s = Null
               THEN /\ last' = [last EXCEPT ![t] = "end"]
                    /\ UNCHANGED <<flock, inbox, streams, pos, smut, dmut,
                                   replay_done, pc, out, polledPast>>
               ELSE IF Replaying(rd, start, s.replay)
                       /\ pos[p][S] < Len(evfile[S])
                       /\ ~LockAvailable(S, p)
               THEN \* blocked in ncntf_stream_lock, streams_mut held
                    /\ pc' = [pc EXCEPT ![t] = "it_wait"]
                    /\ smut' = [smut EXCEPT ![p].owner = t]
                    /\ UNCHANGED <<flock, inbox, streams, pos, dmut,
                                   replay_done, out, last, polledPast>>
               ELSE IF Replaying(rd, start, s.replay)
               THEN IterReturn(t, S,
                        Scan(evfile[S], pos[p][S], start, stop, FALSE, <<>>),
                        rd)
               ELSE IterReturn(t, S,
                        [res |-> "eof", off |-> pos[p][S], skipped |-> <<>>,
                         id |-> 0, t |-> 0], rd)
    /\ UNCHANGED <<session, now, recv, allow, ret, evfile, rules, matches, inited, dbus,
                   ev, sub, cntVars, committed, busLog, opened>>

\* the file lock is granted to a blocked ncntf_stream_iter_next
NcntfStreamIterNextLocked(t) ==
    LET p == ProcOf(t)
        S == sub[t].stream
    IN
    /\ pc[t] = "it_wait"
    /\ LockAvailable(S, p)
    /\ IterReturn(t, S,
           Scan(evfile[S], pos[p][S], sub[t].start, sub[t].stop, TRUE, <<>>),
           0)
    /\ UNCHANGED <<session, now, recv, allow, ret, evfile, rules, matches, inited, dbus,
                   ev, sub, cntVars, committed, busLog, opened>>


(* --------------------------- subscriptions ---------------------------- *)
\* NCNTF_STREAM_DEFAULT
StreamDefault == "NETCONF"

\* the filter element of a request: none, one that nc_rpc_get_filter reads,
\* one it does not
Filters == {"none", "good", "bad"}

\* the create-subscription requests: stream "" is a request without stream
\* element, start and stop -1 one without startTime or stopTime element
Requests ==
    [stream : Streams \cup {""}, start : Starts, stop : Stops,
     filter : Filters]

\* variant: no default stream
ParamStreamAsGiven(s) == s

\* ncntf_subscription_get_params, the stream name
ParamStream(s) == IF s = "" THEN StreamDefault ELSE s

\* ncntf_stream_get of a name that may have no file in the directory
StreamGetAny(reg, files, name) ==
    IF name \in Streams THEN StreamGet(reg, files, name) ELSE Null

\* variant: the test of startTime against the clock comes first
TimesCheckClockFirst(start, stop, tnow) ==
    IF start # -1 /\ start > tnow THEN "bad-element(startTime)"
    ELSE IF stop # -1 /\ start = -1 THEN "missing-element(startTime)"
    ELSE IF stop # -1 /\ start # -1 /\ start > stop
    THEN "bad-element(stopTime)"
    ELSE "ok"

\* ncntf_subscription_check, the tests of start and stop
TimesCheck(start, stop, tnow) ==
    IF stop # -1 /\ start = -1 THEN "missing-element(startTime)"
    ELSE IF stop # -1 /\ start # -1 /\ start > stop
    THEN "bad-element(stopTime)"
    ELSE IF start # -1 /\ start > tnow THEN "bad-element(startTime)"
    ELSE "ok"

\* the reply of ncntf_subscription_check to request req
SubscriptionCheck(reg, files, req, tnow) ==
    IF req.filter = "bad" THEN "bad-element(filter)"
    ELSE IF StreamGetAny(reg, files, ParamStream(req.stream)) = Null
    THEN "invalid-value"
    ELSE TimesCheck(req.start, req.stop, tnow)

\* ncntf_subscription_check(subscribe_rpc): the parameters are read, the
\* stream is looked up under streams_mut (and loaded into the list when
\* only its file is there), the times are tested
NcntfSubscriptionCheck(t, req) ==
    LET p == ProcOf(t)
        S == ParamStream(req.stream)
        looked == req.filter # "bad" /\ S \in Streams
    IN
    /\ inited[p]
    /\ pc[t] = "idle"
    /\ session[t].at = "out"
    /\ req.filter # "bad" => MutexFree(p, t)
    /\ streams' = [streams EXCEPT
          ![p] = IF looked THEN RegAfterGet(streams[p], evfile, S)
                 ELSE streams[p]]
    /\ pos' = [pos EXCEPT
          ![p] = IF looked THEN PosAfterGet(pos[p], streams[p], evfile, S)
                 ELSE pos[p]]
    /\ ret' = [ret EXCEPT
          ![t] = SubscriptionCheck(streams[p], evfile, req, now)]
    /\ session' = [session EXCEPT ![t].rpc = req]
    /\ UNCHANGED <<now, recv, allow, fsVars, busVars, inited, dbus, dmut, smut, replay_done, pc,
                   ev, sub, cntVars, committed, busLog, iterHist>>

(* ------------------------- ncntf_dispatch_send ------------------------ *)
\* the peer or the transport ends the session of thread t: its status is no
\* longer NC_SESSION_STATUS_WORKING
SessionClose(t) ==
    /\ session[t].status = "working"
    /\ session' = [session EXCEPT ![t].status = "closed"]
    /\ UNCHANGED <<now, recv, allow, ret, fsVars, busVars, procVars, replay_done, pc, ev,
                   sub, cntVars, committed, busLog, iterHist>>

\* variant: a subscription is allowed whatever runs on the session
NotifAllowedAlways(sn) == TRUE

\* nc_session_notif_allowed(session): no subscription is running on it
NotifAllowed(sn) == sn.ntf_active = 0

\* the local variable `count` of ncntf_dispatch_send when it returns: it is
\* declared with 0 and no statement of the function assigns to it
DispatchCount(sn) == 0

\* ncntf_dispatch_send(session, subscribe_rpc) from its entry to the head of
\* the loop: the session is checked, the request is validated, ntf_active is
\* set and the iteration is started.  at = "out" is a thread outside of the
\* function; a refused call leaves result = -1.
NcntfDispatchSend(t, req) ==
    LET p == ProcOf(t)
        S == ParamStream(req.stream)
        looked == req.filter # "bad" /\ S \in Streams
        reply == SubscriptionCheck(streams[p], evfile, req, now)
    IN
    /\ inited[p]
    /\ pc[t] = "idle"
    /\ session[t].at = "out"
    /\ sub[t] = NoSub
    /\ IF session[t].status # "working"
       THEN /\ session' = [session EXCEPT ![t].result = -1]
            /\ UNCHANGED <<now, recv, allow, ret, fsVars, busVars, procVars, replay_done,
                           pc, ev, sub, cntVars, committed, busLog, iterHist>>
       ELSE /\ req.filter # "bad" => MutexFree(p, t)
            /\ IF reply # "ok" \/ ~NotifAllowed(session[t])
               THEN /\ session' = [session EXCEPT ![t].result = -1]
                    /\ streams' = [streams EXCEPT
                          ![p] = IF looked
                                 THEN RegAfterGet(streams[p], evfile, S)
                                 ELSE streams[p]]
                    /\ pos' = [pos EXCEPT
                          ![p] = IF looked
                                 THEN PosAfterGet(pos[p], streams[p], evfile, S)
                                 ELSE pos[p]]
                    /\ UNCHANGED <<now, recv, allow, ret, fsVars, busVars, inited, dbus, dmut,
                                   smut, replay_done, pc, ev, sub, cntVars,
                                   committed, busLog, iterHist>>
               ELSE /\ IterStart(t, S, req.start, req.stop)
                    /\ session' = [session EXCEPT
                          ![t] = [status |-> "working", ntf_active |-> 1,
                                  at |-> "head", sent |-> 0, complete |-> 0,
                                  result |-> -2, rpc |-> req]]

\* while (ncntf_config != NULL): the test at the head of the loop
DispatchTest(t) ==
    LET p == ProcOf(t) IN
    /\ session[t].at = "head"
    /\ pc[t] = "idle"
    /\ session' = [session EXCEPT
          ![t].at = IF ConfigNull(inited[p]) THEN "end" ELSE "call"]
    /\ UNCHANGED <<now, recv, allow, ret, fsVars, busVars, procVars, replay_done, pc, ev,
                   sub, cntVars, committed, busLog, iterHist>>

\* event = ncntf_stream_iter_next(stream, start, stop) in the loop
DispatchCall(t) ==
    /\ session[t].at = "call"
    /\ \/ last[t] = "none" /\ NcntfStreamIterNext(t)
       \/ NcntfStreamIterNextLocked(t)

\* the rest of one turn of the loop.  Without an event the loop goes on
\* unless stop is set and passed; an event is filtered and sent to the
\* session, a filter may leave nothing to send.
DispatchNext(t) ==
    LET sn == session[t]
        stop == sn.rpc.stop
    IN
    /\ sn.at = "call"
    /\ pc[t] = "idle"
    /\ last[t] # "none"
    /\ last' = [last EXCEPT ![t] = "none"]
    /\ IF last[t] = "end"
       THEN session' = [session EXCEPT
               ![t].at = IF stop = -1 \/ stop > now THEN "head" ELSE "end"]
       ELSE \E pass \in IF sn.rpc.filter = "good" THEN BOOLEAN ELSE {TRUE} :
               session' = [session EXCEPT
                  ![t].at = "head",
                  ![t].sent = IF pass /\ sn.status = "working"
                              THEN sn.sent + 1 ELSE sn.sent]
    /\ UNCHANGED <<now, recv, allow, ret, fsVars, busVars, procVars, replay_done, pc, ev,
                   sub, cntVars, committed, busLog, out, opened, polledPast>>

\* the session after the loop: notificationComplete is sent, ntf_active is
\* cleared and `count` is returned
SessionAfterLoop(sn) ==
    [sn EXCEPT !.complete = IF sn.status = "working" THEN 1 ELSE 0,
               !.ntf_active = 0,
               !.at = "out",
               !.result = DispatchCount(sn)]

\* after the loop: ncntf_stream_iter_finnish(stream), notificationComplete,
\* return (count).  After ncntf_close dbus_mut is NULL and locking it in
\* ncntf_stream_iter_finnish is undefined: the process ends there, or the
\* call comes back and the function returns.
DispatchEnd(t) ==
    LET p == ProcOf(t) IN
    /\ session[t].at = "end"
    /\ pc[t] = "idle"
    /\ IF inited[p]
       THEN /\ IterFinnish(t)
            /\ session' = [session EXCEPT ![t] = SessionAfterLoop(session[t])]
       ELSE \/ /\ pc' = [x \in Threads |->
                           IF ProcOf(x) = p THEN "dead" ELSE pc[x]]
               /\ flock' = [S \in Streams |->
                              IF flock[S] = p THEN None ELSE flock[S]]
               /\ inbox' = [inbox EXCEPT ![p] = <<>>]
               /\ matches' = [matches EXCEPT ![p] = [S \in Streams |-> 0]]
               /\ session' = [session EXCEPT ![t].at = "dead"]
               /\ UNCHANGED <<now, recv, allow, ret, evfile, rules, procVars, replay_done,
                              ev, sub, cntVars, committed, busLog, iterHist>>
            \/ /\ session' = [session EXCEPT
                     ![t] = SessionAfterLoop(session[t])]
               /\ replay_done' = [replay_done EXCEPT ![t] = 0]
               /\ sub' = [sub EXCEPT ![t] = NoSub]
               /\ out' = [out EXCEPT ![t] = <<>>]
               /\ last' = [last EXCEPT ![t] = "none"]
               /\ UNCHANGED <<now, recv, allow, ret, fsVars, busVars, procVars, pc, ev,
                              cntVars, committed, busLog, opened, polledPast>>

\* one step of thread t inside ncntf_dispatch_send
DispatchStep(t) ==
    DispatchTest(t) \/ DispatchCall(t) \/ DispatchNext(t) \/ DispatchEnd(t)

(* ------------------------ ncntf_dispatch_receive ---------------------- *)
\* what nc_session_recv_notif can hand over as NC_MSG_NOTIFICATION: an
\* event, a notificationComplete, and either of them without a readable
\* eventTime or content
WireKinds == {"event", "complete", "invalid", "invalid-complete"}

\* the peer sends a notification of kind k to the session of thread t
PeerSend(t, k) ==
    /\ Len(recv[t].inq) + recv[t].taken < MaxWire
    /\ recv' = [recv EXCEPT ![t].inq = Append(recv[t].inq, k)]
    /\ UNCHANGED <<now, allow, session, ret, fsVars, busVars, procVars,
                   replay_done, pc, ev, sub, cntVars, committed, busLog,
                   iterHist>>

\* ncntf_dispatch_receive(session, process_ntf) on the session of thread t,
\* from its entry to the head of the loop.  The session is checked, then
\* ntf_active is tested and set under mut_session.  A call made while
\* another ncntf_dispatch_receive runs on the session is the call of
\* another thread: its return value is kept in `other`.
NcntfDispatchReceive(t) ==
    LET sn == session[t]
        refused == IF recv[t].at = "loop"
                   THEN [recv EXCEPT ![t].other = -1]
                   ELSE [recv EXCEPT ![t].result = -1]
    IN
    /\ \E usable \in BOOLEAN :
          IF sn.status # "working" \/ ~usable
          THEN \* invalid parameters, no input descriptor, no capability
               /\ recv' = refused
               /\ UNCHANGED session
          ELSE IF sn.ntf_active = 0
          THEN /\ recv[t].at = "out"
               /\ session' = [session EXCEPT ![t].ntf_active = 1]
               /\ recv' = [recv EXCEPT ![t].at = "loop", ![t].seen = <<>>,
                                        ![t].taken = 0, ![t].result = -2,
                                        ![t].other = -2]
          ELSE /\ recv' = refused
               /\ UNCHANGED session
    /\ UNCHANGED <<now, allow, ret, fsVars, busVars, procVars, replay_done,
                   pc, ev, sub, cntVars, committed, busLog, iterHist>>

\* one turn of the loop of ncntf_dispatch_receive: the test of the session
\* at its head, nc_session_recv_notif, the callback, and the test of
\* `dispatch` that follows.  A turn that finds nothing to read sleeps and
\* changes nothing.
ReceiveTurn(t) ==
    LET r == recv[t]
        k == Head(r.inq)
        popped == [r EXCEPT !.inq = Tail(r.inq), !.taken = r.taken + 1,
                            !.seen = IF k \in {"event", "complete"}
                                     THEN Append(r.seen, k) ELSE r.seen]
        left == [r EXCEPT !.at = "out",
                          !.result = DispatchCount(session[t])]
        leftPopped == [popped EXCEPT !.at = "out",
                                     !.result = DispatchCount(session[t])]
    IN
    /\ r.at = "loop"
    /\ IF session[t].status # "working"
       THEN /\ recv' = [recv EXCEPT ![t] = left]
            /\ session' = [session EXCEPT ![t].ntf_active = 0]
            /\ UNCHANGED nFail
       ELSE \/ \* NC_MSG_NOTIFICATION
               /\ r.inq # <<>>
               /\ IF k \in {"complete", "invalid-complete"}
                  THEN /\ recv' = [recv EXCEPT ![t] = leftPopped]
                       /\ session' = [session EXCEPT ![t].ntf_active = 0]
                  ELSE /\ recv' = [recv EXCEPT ![t] = popped]
                       /\ UNCHANGED session
               /\ UNCHANGED nFail
            \/ \* NC_MSG_UNKNOWN
               /\ nFail < MaxFail
               /\ nFail' = nFail + 1
               /\ recv' = [recv EXCEPT ![t] = left]
               /\ session' = [session EXCEPT ![t].ntf_active = 0]
    /\ UNCHANGED <<now, allow, ret, fsVars, busVars, procVars, replay_done,
                   pc, ev, sub, nPub, nIter, nNew, nInit, nAllow, committed,
                   busLog, iterHist>>

(* --------------------------- specifications --------------------------- *)
\* life cycle and fan-out: two processes on one directory, an application
\* stream, one publishing thread
Next ==
    \/ \E p \in Procs : NcntfInit(p)
    \/ \E p \in {"P"} : NcntfClose(p)
    \/ \E t \in {"t1", "u1"}, n \in Streams, r \in {0, 1} :
           NcntfStreamNew(t, n, r)
    \/ \E e \in AllowNames : NcntfStreamAllowEvents("t1", "A", e)
    \/ Segfault("P")
    \/ \E et \in Etimes, e \in EventNames : EventNewBegin("t1", et, e)
    \/ EventNewFile("t1")
    \/ EventNewTs("t1")
    \/ EventNewPayload("t1")
    \/ EventNewBus("t1")

Spec == Init /\ [][Next]_vars

\* replay: in one process, thread t1 publishes to the NETCONF stream and
\* thread t2 iterates with every window; t1 may open an iteration too
NextReplay ==
    \/ NcntfInit("P")
    \/ \E et \in Etimes : EventNewBegin("t1", et, "netconf-session-start")
    \/ EventNewFile("t1")
    \/ EventNewTs("t1")
    \/ EventNewPayload("t1")
    \/ EventNewBus("t1")
    \/ \E S \in Streams, a \in Starts, b \in Stops :
           NcntfStreamIterStart("t2", S, a, b)
    \/ NcntfStreamIterStart("t1", "NETCONF", 0, -1)
    \/ NcntfStreamIterNext("t2")
    \/ NcntfStreamIterFinnish("t2")
    \/ Tick

SpecReplay == Init /\ [][NextReplay]_vars

\* shared file: the threads of P and the thread of Q publish to the NETCONF
\* stream at the same time, t2 iterates over the full window.  Both
\* processes are initialised before the first publish, and the header of
\* the file is written without a failing write.
NextShared ==
    \/ nPub = 0 /\ \E p \in Procs : NcntfInit(p) /\ nFail' = nFail
    \/ \E t \in Threads : EventNewBegin(t, -1, "netconf-session-start")
    \/ \E t \in Threads : EventNewFile(t)
    \/ \E t \in Threads : EventNewTs(t)
    \/ \E t \in Threads : EventNewPayload(t)
    \/ \E t \in Threads : EventNewBus(t)
    \/ NcntfStreamIterStart("t2", "NETCONF", 0, -1)
    \/ NcntfStreamIterNext("t2")
    \/ NcntfStreamIterNextLocked("t2")

SpecShared == Init /\ [][NextShared]_vars

\* sessions: one process whose thread t1 manages the streams and whose
\* thread t2 serves the create-subscription requests of a client
NextSession ==
    \/ NcntfInit("P")
    \/ NcntfClose("P")
    \/ \E r \in {0, 1} : NcntfStreamNew("t1", "A", r)
    \/ Tick
    \/ \E req \in Requests : NcntfSubscriptionCheck("t2", req)

SpecSession == Init /\ [][NextSession]_vars

\* the create-subscription requests given to ncntf_dispatch_send
DispatchRequests ==
    [stream : {""}, start : {-1, 0}, stop : {-1, 1}, filter : Filters]

\* dispatch: one process, initialised once, whose thread t1 publishes and
\* whose thread t2 runs ncntf_dispatch_send for the session of a client
\* until one subscription was accepted
NextDispatch ==
    \/ nInit = 0 /\ NcntfInit("P")
    \/ NcntfClose("P")
    \/ Tick
    \/ EventNewBegin("t1", -1, "netconf-session-start")
    \/ EventNewStep("t1")
    \/ SessionClose("t2")
    \/ \E req \in DispatchRequests : nIter = 0 /\ NcntfDispatchSend("t2", req)
    \/ DispatchStep("t2")

SpecDispatch == Init /\ [][NextDispatch]_vars

\* event times: one process whose thread t1 publishes with any override
\* and whose thread t2 reads the NETCONF stream back
NextTime ==
    \/ NcntfInit("P")
    \/ Tick
    \/ \E et \in PubTimes : EventNewBegin("t1", et, "netconf-session-start")
    \/ EventNewStep("t1")
    \/ NcntfStreamIterStart("t2", "NETCONF", 0, -1)
    \/ NcntfStreamIterNext("t2")

SpecTime == Init /\ [][NextTime]_vars

\* capability changes: one process whose thread t1 publishes one
\* netconf-capability-change for any two capability lists
NextCpblt ==
    \/ NcntfInit("P")
    \/ \E old \in CpbltLists, new \in CpbltLists :
           nPub = 0 /\ EventNewCpblt("t1", -1, old, new)
    \/ EventNewStep("t1")

SpecCpblt == Init /\ [][NextCpblt]_vars

\* locks: one process whose thread t1 publishes and whose thread t2
\* iterates over the NETCONF stream while the bus may drop the connection
NextLocks ==
    \/ NcntfInit("P")
    \/ BusDisconnect("P")
    \/ Tick
    \/ EventNewBegin("t1", -1, "netconf-session-start")
    \/ EventNewStep("t1")
    \/ \E lo \in Starts : NcntfStreamIterStart("t2", "NETCONF", lo, -1)
    \/ NcntfStreamIterNext("t2")
    \/ NcntfStreamIterFinnish("t2")

SpecLocks == Init /\ [][NextLocks]_vars

\* rules: one process whose threads t1 and t2 allow events on the NETCONF
\* stream and publish at the same time
NextAllow ==
    \/ NcntfInit("P")
    \/ \E t \in {"t1", "t2"}, e \in RaceNames : AllowCheck(t, "NETCONF", e)
    \/ \E t \in {"t1", "t2"} : AllowEnd(t)
    \/ \E t \in {"t1", "t2"} : AllowWrite(t)
    \/ EventNewBegin("t2", -1, "x")
    \/ EventNewStep("t2")

SpecAllow == Init /\ [][NextAllow]_vars

(* ----------------------- calls without a cursor ---------------------- *)
\* process p is killed by SIGSEGV: its threads end, the kernel drops its
\* file locks and its connection to the bus
Sigsegv(p) ==
    /\ pc' = [t \in Threads |-> IF ProcOf(t) = p THEN "dead" ELSE pc[t]]
    /\ flock' = [S \in Streams |-> IF flock[S] = p THEN None ELSE flock[S]]
    /\ inbox' = [inbox EXCEPT ![p] = <<>>]
    /\ matches' = [matches EXCEPT ![p] = [S \in Streams |-> 0]]

\* ncntf_stream_iter_next(S, start, stop) of a thread for which
\* pthread_getspecific(ncntf_replay_done) gives NULL: the three early
\* returns come first; past them *replay_done is written (start == -1) or
\* read through the null pointer, which kills the process or, where the
\* access is not trapped, lets the call return
NcntfStreamIterNextNoCursor(t, S, start, stop) ==
    LET p == ProcOf(t)
        s == StreamGet(streams[p], evfile, S)
    IN
    /\ pc[t] = "idle"
    /\ replay_done[t] = NullPtr
    /\ nIter < MaxIter
    /\ nIter' = nIter + 1
    /\ last' = [last EXCEPT ![t] = "end"]
    /\ IF ConfigNull(inited[p]) \/ (start # -1 /\ stop # -1 /\ stop < start)
       THEN UNCHANGED <<flock, inbox, matches, streams, pos, smut, pc>>
       ELSE /\ MutexFree(p, t)
            /\ streams' = [streams EXCEPT
                  ![p] = RegAfterGet(streams[p], evfile, S)]
            /\ pos' = [pos EXCEPT
                  ![p] = PosAfterGet(pos[p], streams[p], evfile, S)]
            /\ IF s = Null
               THEN UNCHANGED <<flock, inbox, matches, smut, pc>>
               ELSE \/ Sigsegv(p) /\ smut' = [smut EXCEPT ![p].owner = t]
                    \/ UNCHANGED <<flock, inbox, matches, smut, pc>>
    /\ UNCHANGED <<now, recv, evfile, rules, inited, dbus, dmut, replay_done, ev,
                   sub, ret, allow, session, nPub, nNew, nInit, nAllow, nFail,
                   committed, busLog, out, opened, polledPast>>

\* ncntf_stream_iter_finnish(S) of a thread for which
\* pthread_getspecific(ncntf_replay_done) gives NULL: the match rule is
\* removed under dbus_mut, then *replay_done = 0 goes through the null
\* pointer
NcntfStreamIterFinnishNoCursor(t, S) ==
    LET p == ProcOf(t) IN
    /\ pc[t] = "idle"
    /\ inited[p]
    /\ replay_done[t] = NullPtr
    /\ nIter < MaxIter
    /\ nIter' = nIter + 1
    /\ DbusMutFree(p, t)
    /\ \/ Sigsegv(p)
       \/ /\ matches' = [matches EXCEPT
                ![p][S] = IF matches[p][S] > 0 THEN matches[p][S] - 1 ELSE 0]
          /\ UNCHANGED <<flock, inbox, pc>>
    /\ UNCHANGED <<now, recv, evfile, rules, procVars, replay_done, ev, sub, ret,
                   allow, session, nPub, nNew, nInit, nAllow, nFail, committed,
                   busLog, iterHist>>

\* calls without a cursor: one process whose thread t1 publishes and whose
\* thread t2 calls ncntf_stream_iter_start, also for stream A that nobody
\* created, and the two other calls of the iteration with or without it
NextNoCursor ==
    \/ NcntfInit("P")
    \/ Tick
    \/ EventNewBegin("t1", -1, "netconf-session-start")
    \/ EventNewStep("t1")
    \/ \E S \in Streams : NcntfStreamIterStart("t2", S, 0, -1)
    \/ NcntfStreamIterNext("t2")
    \/ NcntfStreamIterFinnish("t2")
    \/ \E S \in Streams, lo \in {-1, 0}, hi \in Stops :
           NcntfStreamIterNextNoCursor("t2", S, lo, hi)
    \/ \E S \in Streams : NcntfStreamIterFinnishNoCursor("t2", S)

SpecNoCursor == Init /\ [][NextNoCursor]_vars

\* the create-subscription requests of the session that is also read:
\* all of them pass ncntf_subscription_check
ReceiveRequests ==
    [stream : {""}, start : {0}, stop : {-1, 1}, filter : {"none"}]

\* the two dispatch functions on one session: the session of thread t2 is
\* served by ncntf_dispatch_send and read by ncntf_dispatch_receive, the
\* library is closed at any time
NextReceive ==
    \/ nInit = 0 /\ NcntfInit("P")
    \/ NcntfClose("P")
    \/ Tick
    \/ SessionClose("t2")
    \/ \E req \in ReceiveRequests : nIter = 0 /\ NcntfDispatchSend("t2", req)
    \/ DispatchStep("t2")
    \/ \E k \in WireKinds : PeerSend("t2", k)
    \/ NcntfDispatchReceive("t2")
    \/ ReceiveTurn("t2")

SpecReceive == Init /\ [][NextReceive]_vars

\* a stream without replay: one process whose thread t1 creates stream A
\* with replay off, allows the session start on it and publishes, and
\* whose thread t2 iterates over A
NextNoReplay ==
    \/ NcntfInit("P")
    \/ NcntfStreamNew("t1", "A", 0)
    \/ NcntfStreamAllowEvents("t1", "A", "netconf-session-start")
    \/ EventNewBegin("t1", -1, "netconf-session-start")
    \/ EventNewStep("t1")
    \/ NcntfStreamIterStart("t2", "A", 0, -1)
    \/ NcntfStreamIterNext("t2")
    \/ Tick

SpecNoReplay == Init /\ [][NextNoReplay]_vars

\* two streams in one process: thread t1 creates stream A, allows event x
\* on it alone, publishes x and iterates over A; thread t2 iterates over
\* NETCONF
NextTwoStreams ==
    \/ NcntfInit("P")
    \/ NcntfStreamNew("t1", "A", 1)
    \/ NcntfStreamAllowEvents("t1", "A", "x")
    \/ EventNewBegin("t1", -1, "x")
    \/ EventNewStep("t1")
    \/ NcntfStreamIterStart("t1", "A", -1, -1)
    \/ NcntfStreamIterFinnish("t1")
    \/ NcntfStreamIterStart("t2", "NETCONF", -1, -1)
    \/ NcntfStreamIterNext("t2")

SpecTwoStreams == Init /\ [][NextTwoStreams]_vars

(* ------------------------------ properties ---------------------------- *)
\* the indices of the items of kind src in what thread t was returned
Items(t, src) == {i \in DOMAIN out[t] : out[t][i].src = src}

\* timestamp ts lies in the window of the iteration of thread t, by the
\* words of the interface: start <= ts, and ts <= stop when stop is set
Admits(t, ts) ==
    /\ sub[t].start # -1
    /\ sub[t].start <= ts
    /\ (sub[t].stop = -1 \/ ts <= sub[t].stop)

\* the record of publish id with timestamp ts stands intact in file f
HasRecord(f, id, ts) ==
    \E o \in 1 .. (Len(f) - 2) :
        /\ f[o] = LenCell(id)
        /\ f[o + 1] = TsCell(id, ts)
        /\ f[o + 2] = PlCell(id)

\* position of publish id in the commit order of stream S, 0 when absent
CommitIdx(S, id) ==
    IF \E i \in DOMAIN committed[S] : committed[S][i].id = id
    THEN CHOOSE i \in DOMAIN committed[S] : committed[S][i].id = id
    ELSE 0

\* C1: a record committed to a replay stream before an iteration was opened,
\* with a timestamp inside the window of the iteration, is among the records
\* the iteration returned before it returned replayComplete.
C1_ReplayedBeforeComplete ==
    \A t \in Threads :
        (sub[t] # NoSub /\ Items(t, "rc") # {}) =>
            \A i \in 1 .. opened[t].len :
                Admits(t, committed[sub[t].stream][i].t) =>
                    \E j \in Items(t, "file"), k \in Items(t, "rc") :
                        /\ j < k
                        /\ out[t][j].id = committed[sub[t].stream][i].id

\* C2: a step of ncntf_event_new leaves the events file of every stream of
\* the registry whose rules do not allow the event as it was, and sends no
\* signal with the path of such a stream.
C2_NotAdmitted ==
    [][\A t \in Threads, S \in Streams :
          (/\ EventNewStep(t)
           /\ InReg(streams[ProcOf(t)], S)
           /\ ~(\E i \in DOMAIN rules[S] : rules[S][i] = ev[t].ename))
          => /\ evfile'[S] = evfile[S]
             /\ \A m \in busLog' \ busLog : m.path # S]_vars

\* C2, its case: the publish of <x/> added one record to stream A and none
\* to NETCONF, and was announced on the path of A only.
C2_Witness ==
    /\ InReg(streams["P"], "NETCONF") /\ InReg(streams["P"], "A")
    /\ Len(committed["A"]) = 1 /\ Len(evfile["A"]) = 4
    /\ committed["NETCONF"] = <<>> /\ Len(evfile["NETCONF"]) = 1
    /\ busLog # {}
    /\ \A m \in busLog : m.path = "A"
    /\ pc["t1"] = "idle"

\* C3: during file replay a record is returned only if start <= t and (stop
\* is unset or t <= stop), and a record is skipped only if its timestamp is
\* outside these inclusive bounds.
C3_WindowInclusive ==
    \A t \in Threads :
        sub[t] # NoSub =>
            /\ \A i \in Items(t, "file") : Admits(t, out[t][i].t)
            /\ \A i \in Items(t, "skip") : ~Admits(t, out[t][i].t)

\* C3, its case: an iteration skipped a record before its start and returned
\* the record whose timestamp is both its start and its stop.
C3_Witness ==
    /\ sub["t2"] # NoSub
    /\ sub["t2"].start = sub["t2"].stop
    /\ \E i \in Items("t2", "skip") : out["t2"][i].t < sub["t2"].start
    /\ \E j \in Items("t2", "file") : out["t2"][j].t = sub["t2"].stop

\* C4: the records an iteration returned from the file stand in the order
\* in which their appends committed.
C4_CommitOrder ==
    \A t \in Threads :
        sub[t] # NoSub =>
            \A i, j \in Items(t, "file") :
                i < j => CommitIdx(sub[t].stream, out[t][i].id)
                             <= CommitIdx(sub[t].stream, out[t][j].id)

\* C5: an iteration with start set was returned at most one replayComplete;
\* every record of the file was returned or skipped before it and every bus
\* message was returned after it.
C5_ReplayCompleteOnce ==
    \A t \in Threads :
        (sub[t] # NoSub /\ sub[t].start # -1) =>
            /\ Cardinality(Items(t, "rc")) <= 1
            /\ \A k \in Items(t, "rc") :
                  /\ \A i \in Items(t, "file") \cup Items(t, "skip") : i < k
                  /\ \A i \in Items(t, "bus") : k < i
            /\ (Items(t, "bus") # {} => Items(t, "rc") # {})

\* C5, its case: a record of the file, then replayComplete, then the bus
\* message of a record appended after replayComplete, whose record in the
\* file was not read.
C5_Witness ==
    /\ sub["t2"] # NoSub /\ sub["t2"].start # -1
    /\ Len(out["t2"]) = 3
    /\ out["t2"][1].src = "file"
    /\ out["t2"][2].src = "rc"
    /\ out["t2"][3].src = "bus"
    /\ HasRecord(evfile[sub["t2"].stream], out["t2"][3].id, out["t2"][3].t)

\* C6: an iteration with start and stop unset was returned bus messages
\* only: no record of the file, no replayComplete.
C6_LiveOnly ==
    \A t \in Threads :
        (sub[t] # NoSub /\ sub[t].start = -1 /\ sub[t].stop = -1) =>
            \A i \in DOMAIN out[t] : out[t][i].src = "bus"

\* C6, its case: the file held a record when the iteration was opened and
\* the iteration was returned a bus message and then end-of-stream.
C6_Witness ==
    /\ sub["t2"] # NoSub /\ sub["t2"].start = -1 /\ sub["t2"].stop = -1
    /\ opened["t2"].len >= 1
    /\ HasRecord(evfile[sub["t2"].stream],
                 committed[sub["t2"].stream][1].id,
                 committed[sub["t2"].stream][1].t)
    /\ Items("t2", "bus") # {}
    /\ last["t2"] = "end"

\* the window of the iteration of thread t lies in the past and every
\* record of the file is older than its stop
PastWindow(t) ==
    /\ sub[t] # NoSub
    /\ sub[t].start # -1 /\ sub[t].stop # -1
    /\ sub[t].start <= sub[t].stop
    /\ sub[t].stop < now
    /\ \A i \in DOMAIN committed[sub[t].stream] :
          committed[sub[t].stream][i].t < sub[t].stop

C8_RecordsIntact ==
    \A S \in Streams :
        LET f == evfile[S] IN
        /\ \A i \in 2 .. Len(f) :
              /\ f[i].k = <<"len", "ts", "payload">>[((i - 2) % 3) + 1]
              /\ f[i].id > 0
              /\ ((i - 2) % 3 # 0 => f[i].id = f[i - 1].id)
        /\ \A i, j \in 2 .. Len(f) :
              (f[i].k = "len" /\ f[j].k = "len" /\ i # j) => f[i].id # f[j].id
        /\ ((Len(f) > 0 /\ (Len(f) - 1) % 3 # 0) => flock[S] # None)

\* C8, its case: the thread of Q has entered ncntf_event_new and is to
\* append to the NETCONF file while thread t1 of P, holding the file lock,
\* has written the length and the timestamp of its record.
C8_Witness ==
    /\ pc["t1"] = "ev_pl"
    /\ ev["t1"].s = "NETCONF"
    /\ flock["NETCONF"] = "P"
    /\ pc["u1"] = "ev_file"
    /\ ev["u1"].s = ""
    /\ TargetAfter(streams["Q"], rules, ev["u1"].ename, "") # 0
    /\ Len(evfile["NETCONF"]) = 3

\* the iteration of thread t was opened over the full window while no call
\* was running, no publish began since, and its replay is complete
FullReplayDone(t) ==
    /\ sub[t] # NoSub
    /\ sub[t].start = 0 /\ sub[t].stop = -1
    /\ opened[t].quiet
    /\ opened[t].pubs = nPub
    /\ Items(t, "rc") # {}

\* C9: an iteration over the full window opened after all publishes returned
\* was returned, when replayComplete comes, every committed record once:
\* as many records as were published, none lost, none twice.
C9_AllRecordsOnce ==
    \A t \in Threads :
        FullReplayDone(t) =>
            /\ Cardinality(Items(t, "file")) = Len(committed[sub[t].stream])
            /\ Items(t, "skip") = {}
            /\ \A i \in DOMAIN committed[sub[t].stream] :
                  \E j \in Items(t, "file") :
                      out[t][j].id = committed[sub[t].stream][i].id

\* C9, its case: every publish the bounds allow was made and committed, by
\* threads of both processes, and the replay returned that many records.
C9_Witness ==
    /\ FullReplayDone("t2")
    /\ nPub = MaxPub
    /\ Len(committed["NETCONF"]) = MaxPub
    /\ Cardinality(Items("t2", "file")) = MaxPub
    /\ \E i, j \in DOMAIN committed["NETCONF"] :
          committed["NETCONF"][i].by = "t1" /\ committed["NETCONF"][j].by = "u1"

\* C10: a record committed to an events file and standing intact in it
\* still stands intact in it after every step.
C10_AppendOnly ==
    [][\A S \in Streams :
          \A i \in DOMAIN committed[S] :
              HasRecord(evfile[S], committed[S][i].id, committed[S][i].t)
              => HasRecord(evfile'[S], committed[S][i].id, committed[S][i].t)]_vars

\* thread t has an iteration in its replay phase and is between two calls
InReplay(t) ==
    /\ sub[t] # NoSub
    /\ pc[t] = "idle"
    /\ replay_done[t] = 0
    /\ sub[t].start # -1

\* C11: the file position of an iteration belongs to its caller: no step of
\* another thread of the process (an append of ncntf_event_new, a
\* ncntf_stream_iter_start, a ncntf_stream_iter_next) changes the offset
\* from which a replaying iteration reads its next record.
C11_OwnCursor ==
    [][\A t \in Threads : \A x \in ThreadsOf(ProcOf(t)) \ {t} :
          (/\ InReplay(t)
           /\ \/ EventNewStep(x)
              \/ NcntfStreamIterNext(x)
              \/ \E S \in Streams, lo \in Starts, hi \in Stops :
                     NcntfStreamIterStart(x, S, lo, hi))
          => pos'[ProcOf(t)][sub[t].stream] = pos[ProcOf(t)][sub[t].stream]]_vars

\* signal m was sent on the stream of the iteration of thread t, by a
\* publish that began after the iteration was opened, with a timestamp in
\* the window of the iteration
OwedTo(t, m) ==
    /\ sub[t] # NoSub
    /\ m.path = sub[t].stream
    /\ m.id > opened[t].pubs
    /\ InWindow(sub[t].start, sub[t].stop, m.t)

\* C12: a signal sent for the stream of an active iteration after the
\* iteration subscribed, with a timestamp in its window, is not lost for
\* it: it waits in the queue of the process or the iteration returned it,
\* whatever the other iterations of the process have read.
C12_SignalKeptForAll ==
    \A t \in Threads : \A m \in busLog :
        OwedTo(t, m)
        => \/ \E i \in DOMAIN inbox[ProcOf(t)] :
                  inbox[ProcOf(t)][i].id = m.id
                  /\ inbox[ProcOf(t)][i].path = m.path
           \/ \E i \in Items(t, "bus") : out[t][i].id = m.id

\* C13: the header round trip: the file ncntf_stream_new wrote for a new
\* stream loads, and the load gives back the name, the replay flag and the
\* offset of the data the stream was created with.
C13_HeaderRoundTrip ==
    [][\A t \in Threads, n \in Streams, r \in {0, 1} :
          (NcntfStreamNew(t, n, r) /\ ret'[t] = Success)
          => ReadFileHeader(evfile'[n]) = NewStream(n, r)]_vars

\* the streams directory holds no events file and no rule store
EmptyDir == \A S \in Streams : evfile[S] = <<>> /\ rules[S] = <<>>

\* C14: after every ncntf_init that succeeded the list of the process holds
\* NETCONF; after one on an empty directory the list is NETCONF alone, with
\* replay enabled, and its rule store admits the five base events.
C14_BaseStreamAfterInit ==
    [][\A p \in Procs :
          NcntfInit(p)
          => /\ \E i \in DOMAIN streams'[p] : streams'[p][i].name = "NETCONF"
             /\ EmptyDir
                => /\ Len(streams'[p]) = 1
                   /\ streams'[p][1].replay = 1
                   /\ \A i \in DOMAIN BaseEvents :
                          Allowed(rules'["NETCONF"], BaseEvents[i])]_vars

\* C15: ncntf_stream_new with a name that stands in the list of the process
\* fails, and the list, the events files and the rule stores are as before.
C15_ExistingNameRefused ==
    [][\A t \in Threads, n \in Streams, r \in {0, 1} :
          (/\ NcntfStreamNew(t, n, r)
           /\ \E i \in DOMAIN streams[ProcOf(t)] :
                  streams[ProcOf(t)][i].name = n)
          => /\ ret'[t] = Failure
             /\ streams' = streams
             /\ evfile' = evfile
             /\ rules' = rules]_vars

\* C15, its case: process P holds NETCONF alone, and its one call of
\* ncntf_stream_new, without a failing write, returned failure: the call
\* named NETCONF, whose file still holds the header of ncntf_init.
C15_Witness ==
    /\ nNew = 1 /\ nFail = 0 /\ nAllow = 0 /\ nPub = 0 /\ nInit = 1
    /\ ret["t1"] = Failure
    /\ Len(streams["P"]) = 1 /\ streams["P"][1].name = "NETCONF"
    /\ evfile["NETCONF"] = <<HeaderWritten("NETCONF", 1)>>
    /\ evfile["A"] = <<>>

\* C16: after a ncntf_stream_allow_events(S, e) that returned success the
\* membership test admits e on S, and every event it admitted before is
\* still admitted.
C16_AllowedAfterAllow ==
    [][\A t \in Threads, S \in Streams, e \in AllowNames :
          (NcntfStreamAllowEvents(t, S, e) /\ ret'[t] = Success)
          => /\ Allowed(rules'[S], e)
             /\ \A e2 \in AllowNames :
                    Allowed(rules[S], e2) => Allowed(rules'[S], e2)]_vars

\* C17: ncntf_stream_allow_events is idempotent: a call with a name that an
\* earlier call wrote to the rule store of S leaves the store as it is.
C17_AllowIdempotent ==
    [][\A t \in Threads, S \in Streams, e \in AllowNames :
          (/\ NcntfStreamAllowEvents(t, S, e)
           /\ \E i \in DOMAIN rules[S] : rules[S][i] = e)
          => rules'[S] = rules[S]]_vars

\* C18: a ncntf_stream_allow_events whose name and newline do not fit into
\* what is left of the rule store fails and leaves the store as it is; the
\* text of a store never takes more than RulesSize - 1 bytes.
C18_StoreBounded ==
    [][\A t \in Threads, S \in Streams, e \in AllowNames :
          NcntfStreamAllowEvents(t, S, e)
          => /\ Used(rules'[S]) <= RulesSize - 1
             /\ (/\ ~Allowed(rules[S], e)
                 /\ Used(rules[S]) + NameLen(e) + 1 > RulesSize - 1)
                => (ret'[t] = Failure /\ rules'[S] = rules[S])]_vars

\* file f holds a cell written by publish id
HasCellOf(f, id) == \E i \in DOMAIN f : f[i].id = id /\ f[i].k # "NCSTREAM"

C20_ResultTellsAppend ==
    [][\A t \in Threads :
          EventNewBus(t)
          => ret'[t] = IF ev[t].failed THEN Failure ELSE Success]_vars

\* C21: the fan-out is best effort: when the file loop of a publish is
\* over, every stream that was targeted when the call took streams_mut
\* holds the record in its commit order, but those whose own append failed
\* (a write error, or the lock).
C21_BestEffortFanOut ==
    \A t \in Threads :
        pc[t] = "ev_bus"
        => \A S \in ev[t].targets :
               \/ S \in ev[t].lost \cup ev[t].nolock
               \/ \E i \in DOMAIN committed[S] : committed[S][i].id = ev[t].id

\* C21, its case: the publish of thread t1 targets A and then NETCONF; the
\* append to A failed, and the record was committed to NETCONF.
C21_Witness ==
    /\ pc["t1"] = "ev_bus"
    /\ ev["t1"].targets = {"A", "NETCONF"}
    /\ streams["P"][1].name = "A"
    /\ ev["t1"].lost \cup ev["t1"].nolock = {"A"}
    /\ \E i \in DOMAIN committed["NETCONF"] :
           committed["NETCONF"][i].id = ev["t1"].id

\* the request names a stream that ncntf_stream_get finds for process p, in
\* the list or as a file that loads
NamesExisting(p, req) ==
    /\ req.stream \in Streams
    /\ \/ \E i \in DOMAIN streams[p] : streams[p][i].name = req.stream
       \/ ReadFileHeader(evfile[req.stream]) # Null

\* C22: for a request that names an existing stream and has no unreadable
\* filter the reply is, in this order: missing-element(startTime) when
\* stopTime is set and startTime is not; bad-element(stopTime) when
\* startTime > stopTime; bad-element(startTime) when startTime is later
\* than the clock; ok.
C22_TimesPrecedence ==
    [][\A t \in Threads :
          LET req == session'[t].rpc IN
          (/\ req \in Requests
           /\ NcntfSubscriptionCheck(t, req)
           /\ NamesExisting(ProcOf(t), req)
           /\ req.filter # "bad")
          => ret'[t] =
                IF req.stop # -1 /\ req.start = -1
                THEN "missing-element(startTime)"
                ELSE IF req.start # -1 /\ req.stop # -1
                        /\ req.start > req.stop
                THEN "bad-element(stopTime)"
                ELSE IF req.start # -1 /\ req.start > now
                THEN "bad-element(startTime)"
                ELSE "ok"]_vars

\* C22, its case: a request whose startTime is later than its stopTime and
\* later than the clock was answered bad-element(stopTime).
C22_Witness ==
    /\ ret["t2"] = "bad-element(stopTime)"
    /\ session["t2"].rpc.start > session["t2"].rpc.stop
    /\ session["t2"].rpc.start > now
    /\ session["t2"].rpc.stop # -1
    /\ inited["P"]

\* the stream a request is about: the one it names, NETCONF when it names
\* none
AskedStream(req) == IF req.stream = "" THEN "NETCONF" ELSE req.stream

\* ncntf_stream_get finds stream S for process p
Findable(p, S) ==
    \/ \E i \in DOMAIN streams[p] : streams[p][i].name = S
    \/ ReadFileHeader(evfile[S]) # Null

\* C23 as stated: the default stream stands in for a missing stream
\* element, the reply is invalid-value when the stream is not in the list
\* and does not load, and never invalid-value when the stream exists.
C23_StreamChecked ==
    [][\A t \in Threads :
          LET req == session'[t].rpc IN
          (req \in Requests /\ NcntfSubscriptionCheck(t, req))
          => (ret'[t] = "invalid-value"
              <=> ~Findable(ProcOf(t), AskedStream(req)))]_vars

\* C23 amended: the same for the requests whose filter, if any, is read by
\* nc_rpc_get_filter; a request with an unreadable filter is answered
\* bad-element(filter) before the stream is looked at.
C23_StreamCheckedAfterFilter ==
    [][\A t \in Threads :
          LET req == session'[t].rpc IN
          (req \in Requests /\ NcntfSubscriptionCheck(t, req))
          => /\ req.filter # "bad"
                => (ret'[t] = "invalid-value"
                    <=> ~Findable(ProcOf(t), AskedStream(req)))
             /\ req.filter = "bad" => ret'[t] = "bad-element(filter)"]_vars

\* C23, its cases: a request without stream element was answered ok while
\* NETCONF is the one stream of the list; or a request naming A, which is
\* not there, was answered invalid-value.
C23_Witness ==
    /\ inited["P"]
    /\ Len(streams["P"]) = 1 /\ streams["P"][1].name = "NETCONF"
    /\ evfile["A"] = <<>>
    /\ \/ session["t2"].rpc.stream = "" /\ ret["t2"] = "ok"
       \/ session["t2"].rpc.stream = "A" /\ ret["t2"] = "invalid-value"

\* C24: the loop of ncntf_dispatch_send looks at the session in every turn
\* and is left once the session is no longer working: a test at the head of
\* the loop made with a session that is not working ends the loop.
C24_LoopEndsWithSession ==
    [][\A t \in Threads :
          (DispatchTest(t) /\ session[t].status # "working") =>
              session'[t].at = "end"]_vars

\* C25: a ncntf_stream_iter_next call that starts while the library is not
\* initialised (after ncntf_close, before ncntf_init) returns NULL and
\* touches no stream file, no lock, no list and no bus message; a loop of
\* ncntf_dispatch_send whose head is reached after shutdown is left there.
C25_ShutdownEndsIteration ==
    [][\A t \in Threads :
          /\ (NcntfStreamIterNext(t) /\ ~inited[ProcOf(t)]) =>
                 /\ last'[t] = "end"
                 /\ pc'[t] = "idle"
                 /\ UNCHANGED <<fsVars, busVars, procVars, replay_done, out,
                                polledPast>>
          /\ (DispatchTest(t) /\ ~inited[ProcOf(t)]) =>
                 session'[t].at = "end"]_vars

\* a subscription without stop whose loop was left after ncntf_close
C25_Witness ==
    /\ ~inited["P"]
    /\ session["t2"].at = "end"
    /\ session["t2"].rpc.stop = -1
    /\ sub["t2"] # NoSub

\* C26: a ncntf_stream_iter_next call that returns end-of-stream, a bad or
\* short record included, has released what it took: the thread does not
\* own streams_mut and no file lock taken by the call is left on the file.
C26_EndOfStreamReleases ==
    [][\A t \in Threads :
          ((NcntfStreamIterNext(t) \/ NcntfStreamIterNextLocked(t))
              /\ pc'[t] = "idle" /\ last'[t] = "end") =>
              /\ smut'[ProcOf(t)].owner # t
              /\ flock'[sub[t].stream] = ProcOf(t) =>
                     flock[sub[t].stream] = ProcOf(t)]_vars

\* C27: ncntf_dispatch_send returns the number of notifications it sent to
\* the session: when the function returns after its loop, the library
\* still initialised, the value returned is the number of notifications
\* sent during the loop.
C27_ReturnsNumberSent ==
    [][\A t \in Threads :
          (DispatchEnd(t) /\ inited[ProcOf(t)]) =>
              session'[t].result = session[t].sent]_vars

\* C28: the time of an event is the override when the override is >= 0 and
\* the current time for every negative override, so what is stored is never
\* the unsigned image of a negative value.
C28_NegativeMeansNow ==
    [][\A t \in Threads : \A et \in PubTimes : \A e \in EventNames :
          EventNewBegin(t, et, e) =>
              ev'[t].time = IF et >= 0 THEN et ELSE now]_vars

\* the URI without its parameters: up to the first '?'
CpbltBase(u) == SubSeq(u, 1, Poffset(u))

\* the entries of a sequence
Entries(q) == {q[i] : i \in DOMAIN q}

\* C29: two capability URIs match iff they are equal up to the first '?'.
\* A new URI without a matching old URI is reported as added, and only
\* then; an old URI without a matching new URI as deleted, and only then; a
\* new URI is reported as modified only when a matching old URI differs
\* from it, and always when every matching old URI differs from it.
C29_DiffByPrefix ==
    \A t \in Threads :
        LET cp == ev[t].cp
            Old == Entries(cp.old)
            New == Entries(cp.new)
            Out == Entries(cp.content)
        IN
        /\ \A u \in New :
              /\ CpbltEntry("added-capability", u) \in Out <=>
                     ~\E o \in Old : CpbltBase(o) = CpbltBase(u)
              /\ CpbltEntry("modified-capability", u) \in Out =>
                     \E o \in Old : CpbltBase(o) = CpbltBase(u) /\ o # u
              /\ ((\E o \in Old : CpbltBase(o) = CpbltBase(u))
                      /\ \A o \in Old : CpbltBase(o) = CpbltBase(u) => o # u)
                     => CpbltEntry("modified-capability", u) \in Out
        /\ \A o \in Old :
              CpbltEntry("deleted-capability", o) \in Out <=>
                 ~\E u \in New : CpbltBase(o) = CpbltBase(u)

\* thread t enters pthread_mutex_lock(streams_mut) in this step
LocksStreamsMut(t) ==
    \/ smut'[ProcOf(t)].owner = t /\ smut[ProcOf(t)].owner # t
    \/ /\ NcntfStreamIterNext(t)
       /\ inited[ProcOf(t)]
       /\ ~(sub[t].start # -1 /\ sub[t].stop # -1
              /\ sub[t].stop < sub[t].start)

\* C30: no thread acquires streams_mut or the lock of a stream file while
\* it holds dbus_mut: a thread that enters pthread_mutex_lock(streams_mut)
\* does not own dbus_mut, and the process of a thread that owns dbus_mut
\* gets no file lock through that thread.
C30_LockOrder ==
    [][\A t \in Threads :
          /\ LocksStreamsMut(t) => dmut[ProcOf(t)] # t
          /\ \A S \in Streams :
                (flock'[S] = ProcOf(t) /\ flock[S] # ProcOf(t)
                    /\ smut'[ProcOf(t)].owner = t) => dmut[ProcOf(t)] # t]_vars

\* C31: the rule stores and the list of streams are read and written only
\* by a thread that holds streams_mut: a step that allows an event, and the
\* bus loop of a publish, which walks the list and reads the rules, are
\* taken only when no other thread of the process owns streams_mut.
C31_RulesUnderMutex ==
    [][\A t \in Threads :
          /\ EventNewBus(t) => MutexFree(ProcOf(t), t)
          /\ \A S \in Streams : \A e \in AllowNames :
                NcntfStreamAllowEvents(t, S, e) => MutexFree(ProcOf(t), t)]_vars

\* C32: whatever the interleaving of ncntf_stream_allow_events calls of the
\* threads of a process, a rule store has no name on two lines, and a call
\* that returns success leaves its name and every name allowed before
\* allowed.
C32_RulesStayUnique ==
    [][\A S \in Streams :
          /\ \A i \in DOMAIN rules'[S] : \A j \in DOMAIN rules'[S] :
                rules'[S][i] = rules'[S][j] => i = j
          /\ \A t \in Threads :
                (AllowWrite(t) /\ allow[t].stream = S) =>
                   /\ Allowed(rules'[S], allow[t].event)
                   /\ \A i \in DOMAIN rules[S] :
                         Allowed(rules'[S], rules[S][i])]_vars

\* stream S is in the list of process p with replay off
ReplayOff(p, S) ==
    InReg(streams[p], S) /\ streams[p][RegIdx(streams[p], S)].replay = 0

\* C33: for a stream with replay off that allows the event, a publish
\* leaves the events file as it is and still sends the signal, with the
\* time of the event, on the path of the stream; an iteration with start
\* set on such a stream gets replayComplete from its first call and never a
\* record of the file.
C33_NoReplayStillLive ==
    [][\A t \in Threads : \A S \in Streams :
          ReplayOff(ProcOf(t), S) =>
             /\ EventNewStep(t) => evfile'[S] = evfile[S]
             /\ (EventNewBus(t) /\ Allowed(rules[S], ev[t].ename)
                    /\ dbus[ProcOf(t)] = "open") =>
                   [path |-> S, t |-> ev[t].time, id |-> ev[t].id]
                       \in busLog'
             /\ (NcntfStreamIterNext(t) /\ sub[t].stream = S
                    /\ sub[t].start # -1) =>
                   /\ \A i \in DOMAIN out'[t] : out'[t][i].src # "file"
                   /\ replay_done[t] = 0 => last'[t] = "rc"]_vars

\* the event was sent on the path of A, whose file holds its header only,
\* and the iteration over A got replayComplete
C33_Witness ==
    /\ ReplayOff("P", "A")
    /\ \E m \in busLog : m.path = "A"
    /\ Len(evfile["A"]) = 1
    /\ sub["t2"].stream = "A" /\ sub["t2"].start # -1
    /\ last["t2"] = "rc"

\* the record of publish id with time ts stands whole in file f: its length,
\* its timestamp and its payload, one behind the other
WholeRecord(f, id, ts) ==
    \E i \in DOMAIN f :
        /\ i + 2 \in DOMAIN f
        /\ f[i] = LenCell(id)
        /\ f[i + 1] = TsCell(id, ts)
        /\ f[i + 2] = PlCell(id)

\* C34: in one call of ncntf_event_new the signals are sent only when the
\* file loop is over: the caller no longer owns streams_mut, no file lock
\* is left from an append of the call, every file that holds a cell of the
\* publish holds its whole record, and the call writes no file any more;
\* the signals carry the publish and the timestamp the records carry.
C34_BusAfterFiles ==
    [][\A t \in Threads :
          EventNewBus(t) =>
             /\ smut[ProcOf(t)].owner # t
             /\ \A S \in Streams :
                   /\ flock[S] = ProcOf(t) =>
                         \E o \in ThreadsOf(ProcOf(t)) \ {t} :
                             pc[o] \in {"ev_ts", "ev_pl"} /\ ev[o].s = S
                   /\ HasCellOf(evfile[S], ev[t].id) =>
                         WholeRecord(evfile[S], ev[t].id, ev[t].time)
             /\ evfile' = evfile /\ flock' = flock
             /\ pc'[t] = "idle"
             /\ \A m \in busLog' \ busLog :
                   /\ m.id = ev[t].id /\ m.t = ev[t].time
                   /\ \A S \in Streams : \A i \in DOMAIN evfile[S] :
                         (evfile[S][i].k = "ts" /\ evfile[S][i].id = m.id)
                         => evfile[S][i].v = m.t]_vars

\* a publish whose record stands in the NETCONF file was sent on the bus
\* with the same timestamp
C34_Witness ==
    \E m \in busLog :
        /\ m.path = "NETCONF"
        /\ WholeRecord(evfile["NETCONF"], m.id, m.t)
        /\ pc["t1"] = "idle"

\* C35: what an iteration returns from the bus was sent on the path of its
\* own stream: an event published on another stream alone never reaches
\* it, whatever iterations the process has or had over that other stream.
C35_StreamIsolation ==
    \A t \in Threads : \A i \in DOMAIN out[t] :
        out[t][i].src = "bus" =>
            \E m \in busLog :
                m.id = out[t][i].id /\ m.path = sub[t].stream
C37_DbusMutReleased ==
    \A t \in Threads : pc[t] = "idle" => dmut[ProcOf(t)] # t
\* C38: ncntf_stream_iter_next and ncntf_stream_iter_finnish of a thread
\* that has no cursor, for want of a successful ncntf_stream_iter_start,
\* fail or do nothing: the calling process lives on.
C38_NoCursorSafe ==
    [][\A t \in Threads : \A S \in Streams :
          /\ NcntfStreamIterFinnishNoCursor(t, S) => pc'[t] # "dead"
          /\ \A lo \in {-1, 0} : \A hi \in Stops :
                NcntfStreamIterNextNoCursor(t, S, lo, hi) => pc'[t] # "dead"]_vars
\* thread t stands inside ncntf_dispatch_send
Sending(sn) == sn.at \in {"head", "call", "end"}

C40_CompleteComesLast ==
    [][\A t \in Threads :
          /\ (DispatchEnd(t) /\ session[t].status = "working") =>
                /\ session'[t].complete = 1
                /\ session'[t].sent = session[t].sent
                /\ session'[t].at = "out"
          /\ (session[t].complete = 1 /\ session'[t].complete = 1) =>
                session'[t].sent = session[t].sent
          /\ (ReceiveTurn(t) /\ session[t].status = "working"
                 /\ recv[t].inq # <<>> /\ Head(recv[t].inq) = "complete"
                 /\ recv'[t].taken > recv[t].taken) =>
                /\ recv'[t].seen = Append(recv[t].seen, "complete")
                /\ recv'[t].at = "out"
          /\ (ReceiveTurn(t) /\ session[t].status # "working") =>
                /\ recv'[t].at = "out"
                /\ recv'[t].inq = recv[t].inq]_vars
====
